---- MODULE Spec2Model ----
(***************************************************************************)
(* Model of the Notion workspace documentator: the fetch of pages and      *)
(* databases (services/notion.ts), the assembly of the                     *)
(* WorkspaceDocumentation aggregate and the per-format generation loop     *)
(* (index.ts, server.js), and the tree builders and renderers              *)
(* (formatters/index.ts).                                                  *)
(***************************************************************************)
EXTENDS Integers, Sequences, FiniteSets, TLC

(***************************************************************************)
(* Bounds of the model.                                                    *)
(***************************************************************************)
MaxPages == 2
MaxDatabases == 1
MaxProps == 4

(* the longest list of formats of a request *)
MaxFormats == 2
(* the requests of one run that may fail *)
MaxFailures == 1

(* the longest workspace name given on the command line or in a request *)
MaxNameLen == 2

(* how many files the server writes while it is up *)
MaxFiles == 2

(***************************************************************************)
(* Generic helpers.                                                        *)
(***************************************************************************)
RECURSIVE FoldSeq(_, _, _, _)
FoldSeq(Op(_, _), acc, s, i) ==
    IF i > Len(s) THEN acc ELSE FoldSeq(Op, Op(acc, s[i]), s, i + 1)

(* an array left in the order it had *)
NotReversed(s) == s

RECURSIVE Reverse(_)
Reverse(s) == IF s = <<>> THEN <<>> ELSE Append(Reverse(Tail(s)), Head(s))

RECURSIVE SelectSeqIdx(_, _, _)
SelectSeqIdx(s, Keep(_), i) ==
    IF i > Len(s) THEN <<>>
    ELSE (IF Keep(s[i]) THEN <<s[i]>> ELSE <<>>) \o SelectSeqIdx(s, Keep, i + 1)

Filter(s, Keep(_)) == SelectSeqIdx(s, Keep, 1)

Some(s, P(_)) == \E i \in 1..Len(s) : P(s[i])

RECURSIVE Flatten(_)
Flatten(ss) == IF ss = <<>> THEN <<>> ELSE Head(ss) \o Flatten(Tail(ss))

MapSeq(s, F(_)) == [i \in 1..Len(s) |-> F(s[i])]

Range(s) == {s[i] : i \in 1..Len(s)}

(* JavaScript's undefined / empty string: both falsy. *)
Undefined == ""
Truthy(x) == x # Undefined

(***************************************************************************)
(* The remote workspace, as the Notion API answers for it.                 *)
(***************************************************************************)
ApiVersions == {"2022-06-28", "2025-09-03"}

PageId(i) == "p" \o ToString(i)
DatabaseId(i) == "d" \o ToString(i)
DataSourceId(dbId) == "s-" \o dbId
UnsharedPageId == "px"
UnsharedDatabaseId == "dx"
InaccessibleBlockId == "b0"
BlockInPage(pageId) == "b-" \o pageId

NotionUrl(id) == "https://www.notion.so/" \o id

(* created_time and last_edited_time of every entity of the workspace *)
EntityTime == "2025-01-01T00:00:00.000Z"

(* new Date(iso).toLocaleString() *)
ToLocaleString(iso) ==
    CASE iso = "2025-01-01T00:00:00.000Z" -> "1/1/2025, 12:00:00 AM"
      [] iso = "2025-06-01T12:00:00.000Z" -> "6/1/2025, 12:00:00 PM"

PageTitleOf(i) ==
    CASE i = 1 -> "Home"
      [] i = 2 -> "Sub"
      [] i = 3 -> ""
      [] OTHER -> "Notes"

DatabaseTitleOf(i) ==
    CASE i = 1 -> "Tasks"
      [] OTHER -> "Archive"

NoOptions == [kind |-> "undefined"]

(* extractPropertyOptions: the options blob kept for a property of the schema. *)
extractPropertyOptions(property) ==
    CASE property.type \in {"select", "multi_select", "status"} ->
            [kind |-> "list", names |-> property.optionNames]
      [] property.type = "formula" ->
            [kind |-> "formula", expression |-> property.expression]
      [] property.type = "relation" ->
            [kind |-> "relation", database_id |-> property.relationTarget,
             dual_property |-> FALSE, single_property |-> Undefined]
      [] OTHER -> NoOptions

ApiProperty(i) ==
    CASE i = 1 -> [id |-> "title", name |-> "Name", type |-> "title",
                   optionNames |-> <<>>, expression |-> Undefined, relationTarget |-> Undefined, description |-> Undefined]
      [] i = 2 -> [id |-> "st", name |-> "Status", type |-> "status",
                   optionNames |-> <<"Done">>, expression |-> Undefined, relationTarget |-> Undefined, description |-> Undefined]
      [] i = 3 -> [id |-> "rel", name |-> "Link", type |-> "relation",
                   optionNames |-> <<>>, expression |-> Undefined, relationTarget |-> DatabaseId(1), description |-> Undefined]
      [] i = 4 -> [id |-> "ref", name |-> "Ref", type |-> "relation",
                   optionNames |-> <<>>, expression |-> Undefined,
                   relationTarget |-> UnsharedDatabaseId, description |-> Undefined]
      [] OTHER -> [id |-> "f" \o ToString(i), name |-> "Calc", type |-> "formula",
                   optionNames |-> <<>>,
                   expression |-> "prop( {{notion:block_property:st}} )  +  1",
                   relationTarget |-> Undefined, description |-> Undefined]

ApiSchema(n) == [i \in 1..n |-> ApiProperty(i)]

(* Parent objects of the API: the fields that are absent are Undefined. *)
NoParent ==
    [type |-> Undefined, database_id |-> Undefined, page_id |-> Undefined,
     block_id |-> Undefined, data_source_id |-> Undefined, workspace |-> Undefined]

WorkspaceParent == [NoParent EXCEPT !.type = "workspace", !.workspace = "true"]
PageParent(pageId) == [NoParent EXCEPT !.type = "page_id", !.page_id = pageId]
BlockParent(blockId) == [NoParent EXCEPT !.type = "block_id", !.block_id = blockId]

(* A database row: the 2025-09-03 API names the data source and the database,
   the 2022-06-28 API the database only. *)
ItemParent(apiVersion, dbId) ==
    IF apiVersion = "2025-09-03"
    THEN [NoParent EXCEPT !.type = "data_source_id",
                          !.data_source_id = DataSourceId(dbId), !.database_id = dbId]
    ELSE [NoParent EXCEPT !.type = "database_id", !.database_id = dbId]

(* Where the i-th page of the workspace may hang: the first page at the top,
   in the first database or under a page that is not shared; the second at
   the top, in the first database, under the first page or under a block of
   the first page; a later one in the first database or under the page
   before it. *)
PageParentChoices(apiVersion, i, n) ==
    {ItemParent(apiVersion, DatabaseId(1))}
    \cup (IF i <= 2 THEN {WorkspaceParent} ELSE {})
    \cup (IF i = 1 THEN {PageParent(UnsharedPageId)} ELSE {PageParent(PageId(i - 1))})
    \cup (IF i = 2 THEN {BlockParent(BlockInPage(PageId(1)))} ELSE {})

DatabaseParentChoices ==
    {WorkspaceParent, PageParent(PageId(1)), BlockParent(InaccessibleBlockId)}

(* blocks.retrieve followed up the parent chain: the page that holds the block. *)
resolveBlockToPage(blockId) ==
    IF blockId = InaccessibleBlockId THEN Undefined
    ELSE IF blockId = BlockInPage(PageId(1)) THEN PageId(1)
    ELSE Undefined

(* The entity a page or a database hangs under in the remote workspace,
   Undefined when it hangs under the workspace or under nothing accessible. *)
RemoteParent(parent) ==
    CASE parent.type = "page_id" -> parent.page_id
      [] parent.type = "block_id" -> resolveBlockToPage(parent.block_id)
      [] parent.type \in {"database_id", "data_source_id"} -> parent.database_id
      [] OTHER -> Undefined

RemoteEntities(w) == Range(w.pages) \cup Range(w.databases)

RECURSIVE ClimbsOut(_, _, _)
ClimbsOut(w, id, fuel) ==
    LET here == {e \in RemoteEntities(w) : e.id = id} IN
    IF here = {} THEN TRUE
    ELSE IF fuel = 0 THEN FALSE
    ELSE LET up == RemoteParent((CHOOSE e \in here : TRUE).parent) IN
         IF up = Undefined THEN TRUE ELSE ClimbsOut(w, up, fuel - 1)

(* Notion nests pages and databases in a forest: nothing is its own ancestor. *)
Acyclic(w) ==
    \A e \in RemoteEntities(w) : ClimbsOut(w, e.id, Len(w.pages) + Len(w.databases))

RemotePage(i, parent) ==
    [id |-> PageId(i), title |-> PageTitleOf(i), url |-> NotionUrl(PageId(i)),
     parent |-> parent]

RemoteDatabase(i, parent, k) ==
    [id |-> DatabaseId(i), title |-> DatabaseTitleOf(i), url |-> NotionUrl(DatabaseId(i)),
     parent |-> parent, schema |-> ApiSchema(k)]

PageParentUniverse(apiVersion, n) ==
    UNION {PageParentChoices(apiVersion, i, n) : i \in 1..n}

TitledPageLists(apiVersion) ==
    UNION {
      {ps \in {[i \in 1..n |-> RemotePage(i, f[i])] :
                  f \in [1..n -> PageParentUniverse(apiVersion, n)]} :
          \A i \in 1..n : ps[i].parent \in PageParentChoices(apiVersion, i, n)}
      : n \in 0..MaxPages}

(* The first page, when it sits at the top of the workspace, may have no title. *)
RemotePageLists(apiVersion) ==
    TitledPageLists(apiVersion)
    \cup {[ps EXCEPT ![1].title = Undefined] :
             ps \in {qs \in TitledPageLists(apiVersion) :
                        Len(qs) >= 1 /\ qs[1].parent = WorkspaceParent}}

(* The databases of a workspace have no property or carry the same schema of
   MaxProps properties; the databases after the first sit at the top of the
   workspace. *)
RemoteDatabaseLists ==
    UNION {
      {[i \in 1..n |-> RemoteDatabase(i, f[i], k)] :
          f \in {g \in [1..n -> DatabaseParentChoices] :
                    \A i \in 2..n : g[i] = WorkspaceParent},
          k \in (IF n = 0 THEN {0} ELSE {0, MaxProps})}
      : n \in 0..MaxDatabases}

(***************************************************************************)
(* NotionService (services/notion.ts).                                     *)
(***************************************************************************)
Or(a, b) == IF Truthy(a) THEN a ELSE b

extractPageInfo(page) ==
    LET parentType == Or(page.parent.type, "unknown")
        parentId == Or(page.parent.database_id, Or(page.parent.page_id,
                    Or(page.parent.block_id, Or(page.parent.data_source_id,
                       page.parent.workspace))))
        resolvedPageId == IF parentType = "block_id" /\ Truthy(page.parent.block_id)
                          THEN resolveBlockToPage(page.parent.block_id)
                          ELSE Undefined
    IN [id |-> page.id,
        title |-> Or(page.title, "Untitled"),
        url |-> page.url,
        lastEditedTime |-> EntityTime,
        createdTime |-> EntityTime,
        parent |-> IF Truthy(resolvedPageId)
                   THEN [type |-> "page_id", id |-> resolvedPageId]
                   ELSE [type |-> parentType, id |-> parentId]]

(* What a call of the Notion client comes to: the request does not get
   through, the token is rejected, or the call is answered. *)
ApiCalls == {"users", "search"}

(* the requests made for one entity: databases.retrieve, GET data_sources/<id>
   and POST data_sources/<id>/query *)
RetrieveDatabase(dbId) == "databases/" \o dbId
GetDataSource(dataSourceId) == "data_sources/" \o dataSourceId
QueryDataSource(dataSourceId) == "data_sources/" \o dataSourceId \o "/query"

EntityRequests(w) ==
    UNION {{RetrieveDatabase(db.id), GetDataSource(DataSourceId(db.id)),
            QueryDataSource(DataSourceId(db.id))} : db \in Range(w.databases)}

Outcome(client, call) ==
    IF call \in client.down THEN "failure"
    ELSE IF client.credential = "invalid" THEN "unauthorized"
    ELSE "ok"

(* the error the Notion client rejects with *)
ClientError(outcome) ==
    IF outcome = "unauthorized"
    THEN [code |-> "unauthorized", status |-> "401", message |-> "API token is invalid."]
    ELSE [code |-> "service_unavailable", status |-> "503",
          message |-> "Service unavailable"]

(* new Error(message): an error with no code and no status *)
NewError(message) == [code |-> Undefined, status |-> Undefined, message |-> message]

NoError == NewError(Undefined)

Returned(value) == [threw |-> FALSE, value |-> value, error |-> NoError]

Threw(error) == [threw |-> TRUE, value |-> <<>>, error |-> error]

(* error.code === 'unauthorized' || error.status === 401 *)
IsUnauthorized(error) == error.code = "unauthorized" \/ error.status = "401"

InvalidTokenMessage == "Notion API token is invalid. Please enter a valid token."

(* search(filter: page), every result extracted in the order of the answer;
   an error of the search is thrown again as a new Error. *)
getAllPages(client, w) ==
    LET outcome == Outcome(client, "search") IN
    IF outcome = "ok" THEN Returned(MapSeq(w.pages, extractPageInfo))
    ELSE Threw(NewError("Failed to fetch pages: " \o ClientError(outcome).message))

ExtractProperties(schema) ==
    MapSeq(schema, LAMBDA prop : [id |-> prop.id, name |-> prop.name, type |-> prop.type,
                                  description |-> Or(prop.description, Undefined),
                                  options |-> extractPropertyOptions(prop)])

(* POST data_sources/<id>/query: the rows of the data source; an error of the
   request is logged and the rows read so far, none, are returned. *)
getDataSourcePages(client, w, dataSourceId) ==
    IF Outcome(client, QueryDataSource(dataSourceId)) = "ok"
    THEN MapSeq(Filter(w.pages, LAMBDA page : page.parent.data_source_id = dataSourceId),
                extractPageInfo)
    ELSE <<>>

extractDataSourceInfo(client, w, dataSource, sourceName, fetchPages) ==
    [id |-> dataSource.id,
     name |-> sourceName,
     title |-> Or(dataSource.title, sourceName),
     description |-> Undefined,
     createdTime |-> EntityTime,
     lastEditedTime |-> EntityTime,
     properties |-> ExtractProperties(dataSource.properties),
     pages |-> IF fetchPages THEN getDataSourcePages(client, w, dataSource.id) ELSE <<>>,
     parent |-> [type |-> "database_id", database_id |-> dataSource.database_id],
     sourceDatabaseName |-> IF Truthy(dataSource.database_parent_page_id)
                            THEN sourceName ELSE ""]

(* GET data_sources/<id>: in the 2025-09-03 API the schema lives here. *)
ApiDataSource(database) ==
    [id |-> DataSourceId(database.id), title |-> database.title,
     properties |-> database.schema, database_id |-> database.id,
     database_parent_page_id |-> database.parent.page_id]

(* a data source whose GET fails is logged and left out *)
getDataSourcesForDatabase(client, w, apiVersion, database, fetchPages) ==
    IF apiVersion = "2025-09-03"
       /\ Outcome(client, GetDataSource(DataSourceId(database.id))) = "ok"
    THEN <<extractDataSourceInfo(client, w, ApiDataSource(database), database.title,
                                 fetchPages)>>
    ELSE <<>>

(* databases.retrieve: the 2022-06-28 answer carries the schema, the
   2025-09-03 answer carries references to the data sources instead. *)
ApiDatabaseProperties(apiVersion, database) ==
    IF apiVersion = "2025-09-03" THEN <<>> ELSE database.schema

extractDatabaseInfo(client, w, apiVersion, database, includeDataSources, fetchPages) ==
    LET parentType == Or(database.parent.type, "unknown")
        parentId == Or(database.parent.database_id, Or(database.parent.page_id,
                    Or(database.parent.block_id, Or(database.parent.data_source_id,
                       database.parent.workspace))))
        resolvedPageId == IF parentType = "block_id" /\ Truthy(database.parent.block_id)
                          THEN resolveBlockToPage(database.parent.block_id)
                          ELSE Undefined
    IN [id |-> database.id,
        title |-> Or(database.title, "Untitled Database"),
        url |-> database.url,
        lastEditedTime |-> EntityTime,
        createdTime |-> EntityTime,
        properties |-> ExtractProperties(ApiDatabaseProperties(apiVersion, database)),
        dataSources |-> IF includeDataSources /\ apiVersion = "2025-09-03"
                        THEN getDataSourcesForDatabase(client, w, apiVersion, database,
                                                       fetchPages)
                        ELSE <<>>,
        parent |-> IF Truthy(resolvedPageId)
                   THEN [type |-> "page_id", id |-> resolvedPageId]
                   ELSE [type |-> parentType, id |-> parentId]]

(* discoverDatabasesFromPages: the databases the data-source search names,
   each retrieved; a database whose retrieve fails is logged and left out.
   searchDatabasesDirectly: the databases of the search, with no request of
   their own. *)
DatabasesFound(client, w, apiVersion) ==
    IF apiVersion = "2025-09-03"
    THEN Filter(w.databases,
                LAMBDA database : Outcome(client, RetrieveDatabase(database.id)) = "ok")
    ELSE w.databases

(* the databases found, each extracted; an error of the search is thrown
   again as a new Error. *)
getAllDatabases(client, w, apiVersion, includeDataSources, fetchPages) ==
    LET outcome == Outcome(client, "search") IN
    IF outcome = "ok"
    THEN Returned(MapSeq(DatabasesFound(client, w, apiVersion),
             LAMBDA database :
                 extractDatabaseInfo(client, w, apiVersion, database, includeDataSources,
                                     fetchPages)))
    ELSE Threw(NewError("Failed to fetch databases: " \o ClientError(outcome).message))

(* users.me: true when answered, the invalid-token error when the token is
   rejected, false on any other error. *)
testConnection(client) ==
    LET outcome == Outcome(client, "users") IN
    IF outcome = "ok" THEN Returned(TRUE)
    ELSE IF IsUnauthorized(ClientError(outcome)) THEN Threw(NewError(InvalidTokenMessage))
    ELSE Returned(FALSE)

(***************************************************************************)
(* The CLI action / POST /api/generate: from the fetched lists to the      *)
(* WorkspaceDocumentation aggregate.                                       *)
(***************************************************************************)
IsItemPage(page) == page.parent.type \in {"database_id", "data_source_id"}

HasDataSources(databases) == Some(databases, LAMBDA db : Len(db.dataSources) > 0)

(* the databases passed on as they were fetched *)
KeepSchemas(includeSchema, allDatabases) == allDatabases

FilterDatabases(includeSchema, allDatabases) ==
    IF includeSchema THEN allDatabases
    ELSE MapSeq(allDatabases, LAMBDA db : [db EXCEPT !.properties = <<>>, !.dataSources = <<>>])

(* the pages passed on as they were fetched *)
KeepAllPages(cfg, databases, pages) == pages

FilterPages(cfg, databases, pages) ==
    IF cfg.includeItems
    THEN IF cfg.apiVersion = "2025-09-03" /\ HasDataSources(databases)
         THEN Filter(pages, LAMBDA page : ~IsItemPage(page))
         ELSE pages
    ELSE Filter(pages, LAMBDA page : ~IsItemPage(page))

RECURSIVE SumSeq(_)
SumSeq(s) == IF s = <<>> THEN 0 ELSE Head(s) + SumSeq(Tail(s))

TotalProperties(databases) ==
    SumSeq(MapSeq(databases, LAMBDA db :
        Len(db.properties) + SumSeq(MapSeq(db.dataSources, LAMBDA ds : Len(ds.properties)))))

(* new Date().toISOString() at the time of the run *)
RunTimestamp == "2025-06-01T12:00:00.000Z"

CreateDocumentation(cfg, pages, allDatabases) ==
    LET databases == FilterDatabases(cfg.includeSchema, allDatabases)
        filteredPages == FilterPages(cfg, databases, pages)
    IN [timestamp |-> RunTimestamp,
        pages |-> filteredPages,
        databases |-> databases,
        summary |-> [totalPages |-> Len(filteredPages),
                     totalDatabases |-> Len(databases),
                     totalProperties |-> TotalProperties(databases)],
        includeSchema |-> cfg.includeSchema,
        includeItems |-> cfg.includeItems]

(***************************************************************************)
(* Tree nodes (formatters/index.ts).  Nodes are JavaScript objects: the    *)
(* heap holds them, a handle is the index of a node in the heap, and a     *)
(* children array or the node map holds handles, so one node can sit in    *)
(* one array twice, and two nodes can carry the same id.                   *)
(***************************************************************************)
EmptyMap == [k \in {} |-> 0]
MapHas(m, k) == k \in DOMAIN m
MapSet(m, k, v) == (k :> v) @@ m

RECURSIVE Join(_, _)
Join(parts, sep) ==
    IF parts = <<>> THEN ""
    ELSE IF Len(parts) = 1 THEN parts[1]
    ELSE parts[1] \o sep \o Join(Tail(parts), sep)

EmptyBuilder == [heap |-> <<>>, allNodes |-> <<>>, nodeMap |-> EmptyMap]

TreeNode(id, title, type, parentId) ==
    [id |-> id, title |-> title, type |-> type, children |-> <<>>, parentId |-> parentId]

LastHandle(b) == Len(b.heap)

(* const node = {...}; nodeMap.set(node.id, node) *)
CreateNode(b, node) ==
    [b EXCEPT !.heap = Append(@, node),
              !.nodeMap = MapSet(@, node.id, Len(b.heap) + 1)]

(* allNodes.push(node) for the node created last *)
PushAllNodes(b) == [b EXCEPT !.allNodes = Append(@, LastHandle(b))]

(* parent.children.push(child) *)
PushChild(b, parent, child) == [b EXCEPT !.heap[parent].children = Append(@, child)]

(* create a node and push it onto the children of its parent node *)
CreateChild(b, parent, node) ==
    PushChild(CreateNode(b, node), parent, Len(b.heap) + 1)

PageNodeTitle(page) == Or(page.title, "Untitled Page") \o " page"
DatabaseNodeTitle(database) == Or(database.title, "Untitled Database") \o " database"

(* the two regular-expression replacements applied to a formula expression *)
CleanExpression(expression) ==
    CASE expression = "prop( {{notion:block_property:st}} )  +  1" -> "prop( [Property] ) + 1"
      [] expression = "a  ||  b" -> "a || b"
      [] OTHER -> expression

(* relation details that print the id of the target without looking it up *)
RelationDetailsWithoutLookup(options, databases) ==
    "-> " \o options.database_id \o " ("
    \o (IF options.dual_property THEN "two-way" ELSE "one-way") \o ", "
    \o (IF options.single_property # Undefined THEN "limit: 1 page" ELSE "no limit") \o ")"

RelationDetails(options, databases) ==
    LET related == {i \in 1..Len(databases) : databases[i].id = options.database_id}
        dbName == IF related # {}
                  THEN databases[CHOOSE i \in related : \A j \in related : i <= j].title
                  ELSE options.database_id
    IN "-> " \o dbName \o " ("
       \o (IF options.dual_property THEN "two-way" ELSE "one-way") \o ", "
       \o (IF options.single_property # Undefined THEN "limit: 1 page" ELSE "no limit") \o ")"

(* A string that may hold the '|' character is kept as its pieces: the '|'
   characters, each a piece of its own, and the stretches between them.  The
   strings of the workspaces that hold a '|' are listed here. *)
Pieces(str) ==
    CASE str = "" -> <<>>
      [] str = "A|B" -> <<"A", "|", "B">>
      [] str = "x|y" -> <<"x", "|", "y">>
      [] str = "a || b" -> <<"a ", "|", "|", " b">>
      [] OTHER -> <<str>>

(* a + b of two strings kept as pieces *)
Cat(a, b) ==
    IF a = <<>> THEN b
    ELSE IF b = <<>> THEN a
    ELSE IF a[Len(a)] # "|" /\ b[1] # "|"
    THEN SubSeq(a, 1, Len(a) - 1) \o <<a[Len(a)] \o b[1]>> \o Tail(b)
    ELSE a \o b

(* parts.join(sep) of strings kept as pieces *)
RECURSIVE JoinPieces(_, _)
JoinPieces(parts, sep) ==
    IF parts = <<>> THEN <<>>
    ELSE IF Len(parts) = 1 THEN parts[1]
    ELSE Cat(Cat(parts[1], <<sep>>), JoinPieces(Tail(parts), sep))

(* MarkdownFormatter.formatPropertyTitle: parts.join(', ') *)
MarkdownPropertyDetails(property, databases) ==
    LET options == property.options
        optionPart ==
            CASE options.kind = "undefined" -> <<"[]">>
              [] property.type \in {"select", "multi_select", "status"} ->
                    IF Len(options.names) > 0
                    THEN Cat(Cat(<<"[">>, JoinPieces(MapSeq(options.names, Pieces), ", ")),
                             <<"]">>)
                    ELSE <<"[]">>
              [] property.type = "relation" ->
                    IF Truthy(options.database_id)
                    THEN <<RelationDetails(options, databases)>> ELSE <<"[]">>
              [] property.type = "formula" ->
                    IF Truthy(options.expression)
                    THEN Cat(Cat(<<"[">>, Pieces(CleanExpression(options.expression))),
                             <<"]">>)
                    ELSE <<"[]">>
              [] OTHER -> <<"{}">>
        parts == <<Pieces(property.id), <<property.type>>, optionPart>>
                 \o (IF Truthy(property.description) THEN <<Pieces(property.description)>>
                     ELSE <<>>)
    IN JoinPieces(parts, ", ")

(* MarkdownFormatter.formatPropertyTitle: `${property.name}|${parts.join(', ')}` *)
MarkdownFormatPropertyTitle(property, databases) ==
    Cat(Cat(Pieces(property.name), <<"|">>), MarkdownPropertyDetails(property, databases))

(* NumberedFormatter.formatPropertyTitle *)
NumberedFormatPropertyTitle(property, databases) ==
    LET options == property.options
        base == property.name \o " (" \o property.type \o ")"
    IN CASE options.kind = "undefined" -> base
         [] property.type \in {"select", "multi_select", "status"} ->
               IF Len(options.names) > 0
               THEN base \o " [" \o Join(options.names, ", ") \o "]" ELSE base
         [] property.type = "relation" ->
               IF Truthy(options.database_id)
               THEN base \o " " \o RelationDetails(options, databases) ELSE base
         [] property.type = "formula" ->
               IF Truthy(options.expression)
               THEN base \o " [" \o CleanExpression(options.expression) \o "]" ELSE base
         [] OTHER -> base

(* a formatPropertyTitle that lists the options of select and multi_select
   properties only *)
TreeFormatPropertyTitleNoStatus(property, databases) ==
    LET options == property.options
        base == property.name \o " (" \o property.type \o ")"
    IN CASE property.type \in {"select", "multi_select"} ->
               IF options.kind = "list" /\ Len(options.names) > 0
               THEN base \o " [" \o Join(options.names, ", ") \o "]" ELSE base
         [] property.type = "relation" ->
               IF options.kind # "undefined" /\ Truthy(options.database_id)
               THEN base \o " " \o RelationDetails(options, databases) ELSE base
         [] property.type = "formula" ->
               IF options.kind # "undefined" /\ Truthy(options.expression)
               THEN base \o " [" \o CleanExpression(options.expression) \o "]" ELSE base
         [] OTHER -> base

(* TreeFormatter.formatPropertyTitle *)
TreeFormatPropertyTitle(property, databases) ==
    LET options == property.options
        base == property.name \o " (" \o property.type \o ")"
    IN CASE property.type \in {"select", "multi_select", "status"} ->
               IF options.kind = "list" /\ Len(options.names) > 0
               THEN base \o " [" \o Join(options.names, ", ") \o "]" ELSE base
         [] property.type = "relation" ->
               IF options.kind # "undefined" /\ Truthy(options.database_id)
               THEN base \o " " \o RelationDetails(options, databases) ELSE base
         [] property.type = "formula" ->
               IF options.kind # "undefined" /\ Truthy(options.expression)
               THEN base \o " [" \o CleanExpression(options.expression) \o "]" ELSE base
         [] OTHER -> base

(* properties.reverse(): the array itself is reversed *)
ReversedInPlace(properties) ==
    [result |-> Reverse(properties), source |-> Reverse(properties)]

(* a copy that is not reversed *)
SameOrderCopy(properties) ==
    [result |-> properties, source |-> properties]

(* [...properties].reverse(): the reversed copy is the result, and the source
   array is left as it was. *)
ReversedCopy(properties) ==
    [result |-> Reverse(properties), source |-> properties]

(* a loop that links a node only to a parent it finds *)
LinkNodeToFoundParent(st, h) ==
    LET node == st.b.heap[h] IN
    IF ~Truthy(node.parentId)
    THEN [st EXCEPT !.rootNodes = Append(@, h)]
    ELSE IF MapHas(st.b.nodeMap, node.parentId)
         THEN LET parent == st.b.nodeMap[node.parentId] IN
              IF h \notin Range(st.b.heap[parent].children)
              THEN [st EXCEPT !.b = PushChild(@, parent, h)]
              ELSE st
         ELSE st

(* a loop that keeps among the roots the nodes it pushes onto their parents *)
LinkNodeAndKeepRoot(st, h) ==
    LET node == st.b.heap[h] IN
    IF Truthy(node.parentId) /\ MapHas(st.b.nodeMap, node.parentId)
    THEN [st EXCEPT !.b = PushChild(@, st.b.nodeMap[node.parentId], h),
                    !.rootNodes = Append(@, h)]
    ELSE [st EXCEPT !.rootNodes = Append(@, h)]

(* The loop that ends the Markdown and the numbered buildTree: a node with no
   parent id, or whose parent id is in no node of the map, becomes a root; a
   node that its parent does not hold yet is pushed onto the parent. *)
LinkNode(st, h) ==
    LET node == st.b.heap[h] IN
    IF ~Truthy(node.parentId)
    THEN [st EXCEPT !.rootNodes = Append(@, h)]
    ELSE IF MapHas(st.b.nodeMap, node.parentId)
         THEN LET parent == st.b.nodeMap[node.parentId] IN
              IF h \notin Range(st.b.heap[parent].children)
              THEN [st EXCEPT !.b = PushChild(@, parent, h)]
              ELSE st
         ELSE [st EXCEPT !.rootNodes = Append(@, h)]

BuildParentChildRelationships(b) ==
    FoldSeq(LinkNode, [b |-> b, rootNodes |-> <<>>], b.allNodes, 1)

WorkspaceTree(data, heap, rootNodes) ==
    [timestamp |-> data.timestamp,
     heap |-> heap, rootNodes |-> rootNodes, summary |-> data.summary,
     includeSchema |-> data.includeSchema, includeItems |-> data.includeItems]

(* the pages of the aggregate that become page nodes in the first loop of the
   Markdown and the numbered buildTree *)
CreatePageNodes(data) ==
    LET hasDataSources == HasDataSources(data.databases)
        AddPage(b, page) ==
            IF hasDataSources /\ IsItemPage(page) THEN b
            ELSE PushAllNodes(CreateNode(b,
                    TreeNode(page.id, PageNodeTitle(page), "page", page.parent.id)))
    IN FoldSeq(AddPage, EmptyBuilder, data.pages, 1)

(* "Data source pages" under a data source node: one page node per fetched row *)
AddDataSourcePages(b, dsNode, dataSource, includeItems) ==
    IF includeItems /\ Len(dataSource.pages) > 0
    THEN LET pagesId == dataSource.id \o "-pages"
             b1 == CreateChild(b, dsNode,
                       TreeNode(pagesId, "Data source pages", "pages-section", dataSource.id))
             pagesNode == LastHandle(b1)
             AddRow(bb, dsPage) ==
                 PushAllNodes(CreateChild(bb, pagesNode,
                     TreeNode(dsPage.id, PageNodeTitle(dsPage), "page", pagesId)))
         IN FoldSeq(AddRow, b1, dataSource.pages, 1)
    ELSE b

(* the re-parenting of the rows of a legacy database under its items section *)
MoveDatabasePages(b, itemsNode, itemsId, database, pages) ==
    LET databasePages ==
            Filter(pages, LAMBDA page : page.parent.type = "database_id"
                                        /\ page.parent.id = database.id)
        Move(bb, dbPage) ==
            IF MapHas(bb.nodeMap, dbPage.id)
            THEN LET existingNode == bb.nodeMap[dbPage.id] IN
                 PushChild([bb EXCEPT !.heap[existingNode].parentId = itemsId],
                           itemsNode, existingNode)
            ELSE bb
    IN FoldSeq(Move, b, databasePages, 1)

(* a properties section with one property node per property, last defined first *)
AddPropertiesSection(b, owner, ownerId, sectionTitle, properties, PropId(_), Title(_)) ==
    LET sectionId == ownerId \o "-properties"
        b1 == CreateChild(b, owner,
                  TreeNode(sectionId, sectionTitle, "properties-section", ownerId))
        propertiesNode == LastHandle(b1)
        AddProp(bb, property) ==
            CreateChild(bb, propertiesNode,
                TreeNode(PropId(property), Title(property), "property", sectionId))
    IN FoldSeq(AddProp, b1, ReversedCopy(properties).result, 1)

(* MarkdownFormatter.buildTree *)
MarkdownBuildTree(data) ==
    LET Title(property) == MarkdownFormatPropertyTitle(property, data.databases)
        AddDataSource(dbNode, databaseId, b, dataSource) ==
            LET b1 == CreateChild(b, dbNode,
                          TreeNode(dataSource.id,
                                   Or(dataSource.title, dataSource.name) \o " data source",
                                   "data-source", databaseId))
                dsNode == LastHandle(b1)
                b2 == IF data.includeSchema /\ Len(dataSource.properties) > 0
                      THEN AddPropertiesSection(b1, dsNode, dataSource.id, "Properties",
                               dataSource.properties,
                               LAMBDA property : dataSource.id \o "-" \o property.id, Title)
                      ELSE b1
            IN AddDataSourcePages(b2, dsNode, dataSource, data.includeItems)
        AddDatabase(b, database) ==
            LET b1 == PushAllNodes(CreateNode(b,
                          TreeNode(database.id, DatabaseNodeTitle(database), "database",
                                   database.parent.id)))
                dbNode == LastHandle(b1)
            IN IF Len(database.dataSources) > 0
               THEN FoldSeq(LAMBDA bb, dataSource :
                                AddDataSource(dbNode, database.id, bb, dataSource),
                            b1, database.dataSources, 1)
               ELSE IF data.includeSchema /\ Len(database.properties) > 0
               THEN LET b2 == AddPropertiesSection(b1, dbNode, database.id, "Properties",
                                  database.properties, LAMBDA property : property.id, Title)
                    IN IF data.includeItems
                       THEN LET itemsId == database.id \o "-items"
                                b3 == CreateChild(b2, dbNode,
                                          TreeNode(itemsId, "Database pages", "items-section",
                                                   database.id))
                            IN MoveDatabasePages(b3, LastHandle(b3), itemsId, database, data.pages)
                       ELSE b2
               ELSE b1
        built == FoldSeq(AddDatabase, CreatePageNodes(data), data.databases, 1)
        linked == BuildParentChildRelationships(built)
    IN WorkspaceTree(data, linked.b.heap, Reverse(linked.rootNodes))

(* NumberedFormatter.buildTree *)
NumberedBuildTree(data) ==
    LET Title(property) == NumberedFormatPropertyTitle(property, data.databases)
        AddDataSource(dbNode, databaseId, b, dataSource) ==
            LET b1 == CreateChild(b, dbNode,
                          TreeNode(dataSource.id,
                                   Or(dataSource.title, dataSource.name) \o " data source",
                                   "data-source", databaseId))
                dsNode == LastHandle(b1)
                b2 == IF Len(dataSource.properties) > 0
                      THEN AddPropertiesSection(b1, dsNode, dataSource.id, "Properties",
                               dataSource.properties,
                               LAMBDA property : dataSource.id \o "-" \o property.id, Title)
                      ELSE b1
            IN AddDataSourcePages(b2, dsNode, dataSource, data.includeItems)
        AddDatabase(b, database) ==
            LET b1 == PushAllNodes(CreateNode(b,
                          TreeNode(database.id, DatabaseNodeTitle(database), "database",
                                   database.parent.id)))
                dbNode == LastHandle(b1)
            IN IF Len(database.dataSources) > 0
               THEN FoldSeq(LAMBDA bb, dataSource :
                                AddDataSource(dbNode, database.id, bb, dataSource),
                            b1, database.dataSources, 1)
               ELSE IF Len(database.properties) > 0
               THEN LET b2 == AddPropertiesSection(b1, dbNode, database.id, "properties:",
                                  database.properties, LAMBDA property : property.id, Title)
                    IN IF data.includeItems
                       THEN LET itemsId == database.id \o "-items"
                                b3 == CreateChild(b2, dbNode,
                                          TreeNode(itemsId, "Database pages", "items-section",
                                                   database.id))
                            IN MoveDatabasePages(b3, LastHandle(b3), itemsId, database, data.pages)
                       ELSE b2
               ELSE b1
        built == FoldSeq(AddDatabase, CreatePageNodes(data), data.databases, 1)
        linked == BuildParentChildRelationships(built)
    IN WorkspaceTree(data, linked.b.heap, Reverse(linked.rootNodes))

(* the comparator of the sort puts the title type first; the sort is stable,
   so the title properties keep their order and so do the others. *)
TitleFirst(properties) ==
    Filter(properties, LAMBDA property : property.type = "title")
    \o Filter(properties, LAMBDA property : property.type # "title")

(* [...properties].sort(...): the sorted copy is the result, and the source
   array is left as it was. *)
SortedCopy(properties) ==
    [result |-> TitleFirst(properties), source |-> properties]

(* String.prototype.localeCompare on the titles the model produces: the
   position of the title in the collation order. *)
CollationRank(title) ==
    CASE title = "Archive (Archive data source)" -> 1
      [] title = "Archive (Unknown Database data source)" -> 2
      [] title = "Archive database" -> 3
      [] title = "Calc (formula) [prop( [Property] ) + 1]" -> 4
      [] title = "Data source pages" -> 5
      [] title = "Home page" -> 6
      [] title = "items:" -> 7
      [] title = "Link (relation) -> d1 (one-way, no limit)" -> 8
      [] title = "Link (relation) -> Tasks (one-way, no limit)" -> 9
      [] title = "Name (title)" -> 10
      [] title = "Notes page" -> 11
      [] title = "properties:" -> 12
      [] title = "Ref (relation) -> dx (one-way, no limit)" -> 13
      [] title = "Status (status)" -> 14
      [] title = "Status (status) [Done]" -> 15
      [] title = "Sub page" -> 16
      [] title = "Tasks (Tasks data source)" -> 17
      [] title = "Tasks (Unknown Database data source)" -> 18
      [] title = "Tasks database" -> 19
      [] title = "Untitled page" -> 20

LocaleCompare(a, b) ==
    IF CollationRank(a) < CollationRank(b) THEN -1
    ELSE IF CollationRank(a) > CollationRank(b) THEN 1 ELSE 0

(* a comparator that compares the titles only *)
CompareByTitle(a, b) == LocaleCompare(a.title, b.title)

(* the comparator of TreeFormatter.sortTreeNodes *)
CompareTreeNodes(a, b) ==
    IF a.type = "properties-section" /\ b.type # "properties-section" THEN -1
    ELSE IF b.type = "properties-section" /\ a.type # "properties-section" THEN 1
    ELSE IF a.type = "items-section" /\ b.type # "items-section"
            /\ b.type # "properties-section" THEN -1
    ELSE IF b.type = "items-section" /\ a.type # "items-section"
            /\ a.type # "properties-section" THEN 1
    ELSE IF a.type # b.type /\ a.type = "page" /\ b.type = "database" THEN -1
    ELSE IF a.type # b.type /\ a.type = "database" /\ b.type = "page" THEN 1
    ELSE LocaleCompare(a.title, b.title)

(* Array.prototype.sort: stable; an element goes before the first one it
   compares below. *)
InsertSorted(heap, sorted, h) ==
    LET before == {i \in 1..Len(sorted) : CompareTreeNodes(heap[h], heap[sorted[i]]) < 0}
        at == IF before = {} THEN Len(sorted) + 1
              ELSE CHOOSE i \in before : \A j \in before : i <= j
    IN SubSeq(sorted, 1, at - 1) \o <<h>> \o SubSeq(sorted, at, Len(sorted))

SortHandles(heap, nodes) ==
    FoldSeq(LAMBDA sorted, h : InsertSorted(heap, sorted, h), <<>>, nodes, 1)

(* TreeFormatter.sortTreeNodes: sorts the array in place, then the children
   of each of its nodes *)
RECURSIVE sortTreeNodes(_, _)
sortTreeNodes(heap, nodes) ==
    LET sorted == SortHandles(heap, nodes)
        SortChildren(hp, h) ==
            LET below == sortTreeNodes(hp, hp[h].children)
            IN [below.heap EXCEPT ![h].children = below.nodes]
    IN [heap |-> FoldSeq(SortChildren, heap, sorted, 1), nodes |-> sorted]

(* the loop that ends TreeFormatter.buildTree *)
TreeLinkNode(st, h) ==
    LET node == st.b.heap[h] IN
    IF node.type \in {"property", "properties-section", "views-section", "data-source",
                      "items-section", "pages-section"}
    THEN st
    ELSE IF ~Truthy(node.parentId) \/ node.parentId = "workspace"
            \/ ~MapHas(st.b.nodeMap, node.parentId)
    THEN [st EXCEPT !.rootNodes = Append(@, h)]
    ELSE LET parent == st.b.nodeMap[node.parentId] IN
         IF st.b.heap[parent].type = "database"
         THEN IF MapHas(st.b.nodeMap, node.parentId \o "-items")
              THEN [st EXCEPT !.b = PushChild(@, st.b.nodeMap[node.parentId \o "-items"], h)]
              ELSE st
         ELSE [st EXCEPT !.b = PushChild(@, parent, h)]

(* TreeFormatter.buildTree *)
TreeBuildTree(data) ==
    LET Title(property) == TreeFormatPropertyTitle(property, data.databases)
        AddPage(b, page) ==
            PushAllNodes(CreateNode(b,
                TreeNode(page.id, PageNodeTitle(page), "page", page.parent.id)))
        AddDataSource(dbNode, databaseId, b, dataSource) ==
            LET sourceName == Or(dataSource.sourceDatabaseName, "Unknown Database")
                b1 == CreateChild(b, dbNode,
                          TreeNode(dataSource.id,
                                   Or(dataSource.title, dataSource.name)
                                       \o " (" \o sourceName \o " data source)",
                                   "data-source", databaseId))
                dsNode == LastHandle(b1)
                AddProp(bb, property) ==
                    CreateChild(bb, dsNode,
                        TreeNode(dataSource.id \o "-" \o property.id, Title(property),
                                 "property", dataSource.id))
                b2 == FoldSeq(AddProp, b1, SortedCopy(dataSource.properties).result, 1)
            IN AddDataSourcePages(b2, dsNode, dataSource, data.includeItems)
        AddDatabase(b, database) ==
            LET b1 == PushAllNodes(CreateNode(b,
                          TreeNode(database.id, DatabaseNodeTitle(database), "database",
                                   database.parent.id)))
                dbNode == LastHandle(b1)
                b2 == IF Len(database.properties) > 0
                      THEN LET sectionId == database.id \o "-properties"
                               c1 == CreateChild(b1, dbNode,
                                         TreeNode(sectionId, "properties:", "properties-section",
                                                  database.id))
                               propertiesNode == LastHandle(c1)
                               AddProp(bb, property) ==
                                   CreateChild(bb, propertiesNode,
                                       TreeNode(property.id, Title(property), "property",
                                                sectionId))
                           IN FoldSeq(AddProp, c1, SortedCopy(database.properties).result, 1)
                      ELSE b1
                b3 == FoldSeq(LAMBDA bb, dataSource :
                                  AddDataSource(dbNode, database.id, bb, dataSource),
                              b2, database.dataSources, 1)
            IN IF data.includeItems
               THEN CreateChild(b3, dbNode,
                        TreeNode(database.id \o "-items", "items:", "items-section",
                                 database.id))
               ELSE b3
        built == FoldSeq(AddDatabase, FoldSeq(AddPage, EmptyBuilder, data.pages, 1),
                         data.databases, 1)
        linked == FoldSeq(TreeLinkNode, [b |-> built, rootNodes |-> <<>>], built.allNodes, 1)
        sorted == sortTreeNodes(linked.b.heap, linked.rootNodes)
    IN WorkspaceTree(data, sorted.heap, Reverse(sorted.nodes))

(***************************************************************************)
(* Renderers.  A body is the sequence of its lines (lines.join('\n')).     *)
(***************************************************************************)
RECURSIVE Repeat(_, _)
Repeat(str, n) == IF n <= 0 THEN "" ELSE str \o Repeat(str, n - 1)

NoContentLines ==
    <<"No accessible content found.",
      "Make sure your pages and databases are shared with the integration.">>

PropertiesSummary(includeSchema, summary) ==
    IF includeSchema THEN ToString(summary.totalProperties) ELSE "not included"

(* String.prototype.split('|') on the strings of the model *)
RECURSIVE SplitPipe(_)
SplitPipe(title) ==
    IF title = <<>> THEN <<"">>
    ELSE IF Head(title) = "|" THEN <<"">> \o SplitPipe(Tail(title))
    ELSE LET rest == SplitPipe(Tail(title)) IN <<Head(title) \o rest[1]>> \o Tail(rest)

FindById(items, id) ==
    LET found == {i \in 1..Len(items) : items[i].id = id}
    IN IF found = {} THEN <<>>
       ELSE <<items[CHOOSE i \in found : \A j \in found : i <= j]>>

EntityBullets(found) ==
    IF found = <<>> THEN <<>>
    ELSE LET e == found[1] IN
         <<"- **ID:** '" \o e.id \o "'",
           "- **URL:** " \o e.url,
           "- **Created:** " \o ToLocaleString(e.createdTime),
           "- **Last Edited:** " \o ToLocaleString(e.lastEditedTime),
           "- **Parent Type:** " \o e.parent.type>>
         \o (IF Truthy(e.parent.id) THEN <<"- **Parent ID:** '" \o e.parent.id \o "'">>
             ELSE <<>>)

DataSourceBullets(data, id) ==
    LET found == FindById(Flatten(MapSeq(data.databases, LAMBDA db : db.dataSources)), id)
    IN IF found = <<>> THEN <<>>
       ELSE LET ds == found[1] IN
            <<"- **ID:** '" \o ds.id \o "'",
              "- **URL:** Not available for data sources",
              "- **Created:** " \o ToLocaleString(ds.createdTime),
              "- **Last Edited:** " \o ToLocaleString(ds.lastEditedTime),
              "- **Parent Type:** " \o ds.parent.type,
              "- **Parent ID:** '" \o ds.parent.database_id \o "'">>
            \o (IF Truthy(ds.description) THEN <<"- **Description:** " \o ds.description>>
                ELSE <<>>)

(* MarkdownFormatter.renderNodeMarkdown; the backquote is written ' *)
RECURSIVE renderNodeMarkdown(_, _, _, _)
renderNodeMarkdown(heap, h, level, data) ==
    LET node == heap[h]
        heading == Repeat("#", level)
        below == Flatten([i \in 1..Len(node.children) |->
                             renderNodeMarkdown(heap, node.children[i], level + 1, data)])
    IN CASE node.type = "page" ->
              <<heading \o " " \o node.title>>
              \o EntityBullets(FindById(data.pages, node.id)) \o <<"">> \o below
         [] node.type = "database" ->
              <<heading \o " " \o node.title>>
              \o EntityBullets(FindById(data.databases, node.id)) \o <<"">> \o below
         [] node.type = "data-source" ->
              <<heading \o " " \o node.title>>
              \o DataSourceBullets(data, node.id) \o <<"">> \o below
         [] node.type \in {"properties-section", "pages-section", "items-section"} ->
              <<heading \o " " \o node.title, "">> \o below
         [] node.type = "property" ->
              LET parts == SplitPipe(node.title)
              IN <<"- **" \o parts[1] \o ":** "
                   \o (IF Len(parts) > 1 THEN parts[2] ELSE "")>>
         [] OTHER -> below

(* MarkdownFormatter.format, given the tree it built *)
MarkdownRender(data, tree) ==
    <<"# Notion Workspace Mapping", "",
      "Generated on: " \o ToLocaleString(data.timestamp), "",
      "## Summary", "",
      "- **Total Pages:** " \o ToString(data.summary.totalPages),
      "- **Total Databases:** " \o ToString(data.summary.totalDatabases),
      "- **Total Properties:** " \o PropertiesSummary(data.includeSchema, data.summary),
      "",
      "## Workspace Structure", "">>
    \o (IF Len(tree.rootNodes) = 0 THEN NoContentLines
        ELSE Flatten([i \in 1..Len(tree.rootNodes) |->
                         renderNodeMarkdown(tree.heap, tree.rootNodes[i], 1, data)]))

(* TreeFormatter.getTypeIcon: the icon, by its name *)
getTypeIcon(type) ==
    CASE type = "page" -> "[page]"
      [] type = "database" -> "[cabinet]"
      [] type = "property" -> "[wrench]"
      [] type = "properties-section" -> "[clipboard]"
      [] type = "items-section" -> "[folder]"
      [] type = "pages-section" -> "[folder]"
      [] type = "data-source" -> "[link]"
      [] OTHER -> "[folder]"

(* TreeFormatter.renderNode; the box-drawing connectors are written in ASCII, the last one as '-- *)
RECURSIVE renderNode(_, _, _, _)
renderNode(heap, h, prefix, isLast) ==
    LET node == heap[h]
        childPrefix == prefix \o (IF isLast THEN "    " ELSE "|   ")
    IN <<prefix \o (IF isLast THEN "'-- " ELSE "|-- ")
         \o getTypeIcon(node.type) \o " " \o node.title>>
       \o Flatten([i \in 1..Len(node.children) |->
                      renderNode(heap, node.children[i], childPrefix,
                                 i = Len(node.children))])

(* TreeFormatter.renderTree *)
renderTree(tree) ==
    <<"# Notion Workspace Tree Structure", "",
      "Generated on: " \o ToLocaleString(tree.timestamp), "",
      "## Summary",
      "Pages: " \o ToString(tree.summary.totalPages),
      "Databases: " \o ToString(tree.summary.totalDatabases),
      "Properties: " \o PropertiesSummary(tree.includeSchema, tree.summary),
      "",
      "## Workspace Structure", "">>
    \o (IF Len(tree.rootNodes) = 0 THEN NoContentLines
        ELSE Flatten([i \in 1..Len(tree.rootNodes) |->
                         renderNode(tree.heap, tree.rootNodes[i], "", TRUE)]))

(* a formatNodeNumbered whose child counter starts at 0 *)
RECURSIVE formatNodeNumberedFromZero(_, _, _)
formatNodeNumberedFromZero(heap, h, numberPath) ==
    LET node == heap[h] IN
    <<Join(MapSeq(numberPath, LAMBDA n : ToString(n)), ".") \o " " \o node.title>>
    \o Flatten([i \in 1..Len(node.children) |->
                   formatNodeNumberedFromZero(heap, node.children[i],
                                              Append(numberPath, i - 1))])

(* NumberedFormatter.formatNodeNumbered *)
RECURSIVE formatNodeNumbered(_, _, _)
formatNodeNumbered(heap, h, numberPath) ==
    LET node == heap[h] IN
    <<Join(MapSeq(numberPath, LAMBDA n : ToString(n)), ".") \o " " \o node.title>>
    \o Flatten([i \in 1..Len(node.children) |->
                   formatNodeNumbered(heap, node.children[i], Append(numberPath, i))])

(* NumberedFormatter.format, given the tree it built *)
NumberedRender(tree) ==
    Flatten([i \in 1..Len(tree.rootNodes) |->
                formatNodeNumbered(tree.heap, tree.rootNodes[i], <<i>>)])

(***************************************************************************)
(* State.                                                                  *)
(***************************************************************************)
VARIABLES
    world,          \* the remote workspace: what the API answers
    api,            \* the credential and the calls that do not get through
    config,         \* the configuration of the run
    request,        \* who asks, and for which formats
    unwritable,     \* the formats whose writeToFile throws
    pc,             \* the position of the handler
    connection,     \* what testConnection came to
    pages,          \* const pages = await notionService.getAllPages()
    allDatabases,   \* const allDatabases = await notionService.getAllDatabases(...)
    documentation,  \* the WorkspaceDocumentation aggregate
    formatted,      \* the renderers whose format(data) has been called
    again,          \* whether a renderer was called again after all of them had run
    trees,          \* the forest each renderer built last
    lastOutput,     \* the body each renderer returned last
    formatIndex,    \* the position of the format loop in request.formats
    generatedFiles, \* const generatedFiles = []
    disk,           \* the paths of the files written
    response,       \* what the caller gets: the HTTP answer, or the exit of the CLI
    tempFiles,      \* const tempFiles = new Map() of the server
    fileIds,        \* how many file ids the server has drawn
    tick,           \* the phase of the clock
    layout,         \* the fonts generatePDF and generateDOC gave to the lines
    handlers,       \* the POST /api/generate handlers that run side by side
    contents,       \* whose documentation each file of the output directory holds
    now,            \* the second new Date() falls in
    ui              \* the page of the web UI

envVars == <<world, api, config, request, unwritable>>

fetchVars == <<pages, allDatabases, documentation>>

renderVars == <<formatted, again, trees, lastOutput>>

genVars == <<formatIndex, generatedFiles, disk>>

serverVars == <<tempFiles, fileIds, tick>>

asideVars == <<layout, handlers, contents, now, ui>>

vars == <<envVars, pc, connection, fetchVars, renderVars, genVars, response, serverVars,
         asideVars>>

Renderers == {"markdown", "tree", "numbered"}

BuildTree(r, data) ==
    CASE r = "markdown" -> MarkdownBuildTree(data)
      [] r = "tree" -> TreeBuildTree(data)
      [] r = "numbered" -> NumberedBuildTree(data)

(* the nodes a walk that starts at the given nodes comes to *)
RECURSIVE Visited(_, _, _)
Visited(heap, frontier, seen) ==
    IF frontier \subseteq seen THEN seen
    ELSE Visited(heap, UNION {Range(heap[h].children) : h \in frontier}, seen \cup frontier)

(* the recursive walk from the roots comes back to a node it is inside of *)
WalkLoops(tree) ==
    \E h \in Visited(tree.heap, Range(tree.rootNodes), {}) :
        h \in Visited(tree.heap, Range(tree.heap[h].children), {})

(* what a recursion without end throws *)
RangeError == <<"RangeError: Maximum call stack size exceeded">>

(* format(data) of the three formatters, after the buildTree it begins with:
   the body rendered from the tree by the recursive walk of the formatter *)
Render(r, data, tree) ==
    IF WalkLoops(tree) THEN RangeError
    ELSE CASE r = "markdown" -> MarkdownRender(data, tree)
           [] r = "tree" -> renderTree(tree)
           [] r = "numbered" -> NumberedRender(tree)

(* The property array a buildTree leaves behind: the tree formatter sorts a
   copy, the other two reverse a copy. *)
PropertiesAfter(r, properties) ==
    IF r = "tree" THEN SortedCopy(properties).source
    ELSE ReversedCopy(properties).source

(* The aggregate as format(data) leaves it: the arrays the builders copy are
   the only ones they sort or reverse. *)
AggregateAfter(r, data) ==
    [data EXCEPT !.databases =
        MapSeq(data.databases, LAMBDA database :
            [database EXCEPT
                !.properties = PropertiesAfter(r, database.properties),
                !.dataSources =
                    MapSeq(database.dataSources, LAMBDA dataSource :
                        [dataSource EXCEPT
                            !.properties = PropertiesAfter(r, dataSource.properties)])])]

EmptyDocumentation ==
    [timestamp |-> RunTimestamp, pages |-> <<>>, databases |-> <<>>,
     summary |-> [totalPages |-> 0, totalDatabases |-> 0, totalProperties |-> 0],
     includeSchema |-> FALSE, includeItems |-> FALSE]

NoTree == WorkspaceTree(EmptyDocumentation, <<>>, <<>>)

Configs ==
    [includeSchema : BOOLEAN, includeItems : BOOLEAN, apiVersion : ApiVersions]

(* the formats of generateSingleFormat of the CLI *)
CliFormats == {"json", "markdown", "csv", "tree", "numbered-txt", "docx", "pdf"}

(* the formats of the switch of POST /api/generate *)
ServerFormats == {"json", "markdown", "csv", "tree", "numbered", "docx", "pdf"}

SupportedFormats(entry) == IF entry = "cli" THEN CliFormats ELSE ServerFormats

FilenameSuffix(format) ==
    CASE format = "tree" -> "_tree"
      [] format \in {"numbered-txt", "numbered"} -> "_numbered"
      [] OTHER -> ""

(* getFileExtension of the formatter of the format *)
FileExtension(format) ==
    CASE format = "json" -> "json"
      [] format = "markdown" -> "md"
      [] format = "csv" -> "csv"
      [] format = "docx" -> "docx"
      [] format = "pdf" -> "pdf"
      [] OTHER -> "txt"

(* the characters a workspace name is made of: [a-zA-Z0-9], \s, and the rest *)
Alphanumeric == {"A", "N", "W", "a", "c", "e", "i", "k", "m", "n", "o", "p", "r", "s", "t", "7"}

WhiteSpace == {" "}

(* .replace(/\s+/g, '_') *)
RECURSIVE ReplaceWhiteSpaceRuns(_)
ReplaceWhiteSpaceRuns(name) ==
    IF name = <<>> THEN <<>>
    ELSE IF Head(name) \notin WhiteSpace
    THEN <<Head(name)>> \o ReplaceWhiteSpaceRuns(Tail(name))
    ELSE IF Len(name) > 1 /\ name[2] \in WhiteSpace
    THEN ReplaceWhiteSpaceRuns(Tail(name))
    ELSE <<"_">> \o ReplaceWhiteSpaceRuns(Tail(name))

OnlyWhiteSpaceReplaced(name) == ReplaceWhiteSpaceRuns(name)

(* workspaceName.replace(/[^a-zA-Z0-9\s]/g, '').replace(/\s+/g, '_') *)
cleanWorkspaceName(name) ==
    ReplaceWhiteSpaceRuns(SelectSeq(name, LAMBDA c : c \in Alphanumeric \cup WhiteSpace))

(* timestamp.toISOString().split('T')[0] of the run *)
dateStr == "2025-06-01"

(* timestamp.toTimeString().split(' ')[0].replace(/:/g, '-') of the run *)
timeStr == "12-00-00"

(* the pieces of `${cleanWorkspaceName}_NWS_${dateStr}-${timeStr}` and of
   `${finalFilename}.${ext}` of writeToFile *)
FileNamePieces(name, format) ==
    cleanWorkspaceName(name)
        \o <<"_NWS_", dateStr, "-", timeStr, FilenameSuffix(format), ".",
              FileExtension(format)>>

(* path.join(outputDir, `${finalFilename}.${ext}`) *)
FilePath(name, format) == "output/" \o Join(FileNamePieces(name, format), "")

UnsupportedFormatMessage(format) == "Unsupported format: " \o format

WriteErrorMessage(name, format) ==
    "EACCES: permission denied, open '" \o FilePath(name, format) \o "'"

(* writeToFile of the formatter of the format, or the throw of the switch *)
WriteFormat(entry, name, format, cannotWrite) ==
    IF format \notin SupportedFormats(entry)
    THEN Threw(NewError(UnsupportedFormatMessage(format)))
    ELSE IF format \in cannotWrite THEN Threw(NewError(WriteErrorMessage(name, format)))
    ELSE Returned(FilePath(name, format))

NoResponse ==
    [kind |-> "none", status |-> "", success |-> FALSE, error |-> "", message |-> "",
     files |-> <<>>, count |-> 0]

(* process.exit(code) after the lines the CLI printed *)
Exit(code, message, files) ==
    [NoResponse EXCEPT !.kind = "exit", !.status = code, !.success = (code = "0"),
                       !.message = message, !.files = files]

(* res.status(status).json({error, message}) *)
HttpError(status, error, message) ==
    [NoResponse EXCEPT !.kind = "http", !.status = status, !.error = error,
                       !.message = message]

(* res.json({success: true, ...}) *)
HttpSuccess(files, count) ==
    [NoResponse EXCEPT !.kind = "http", !.status = "200", !.success = TRUE,
                       !.files = files, !.count = count]

InvalidToken == HttpError("401", "Invalid API token", InvalidTokenMessage)

(* the catch of a handler of the server *)
ServerCatch(error, what) ==
    IF IsUnauthorized(error) THEN InvalidToken
    ELSE HttpError("500", what, error.message)

(* the catch of the CLI action *)
CliCatch(error) == Exit("1", error.message, <<>>)

Catch(entry, error) ==
    IF entry = "cli" THEN CliCatch(error)
    ELSE ServerCatch(error, "Failed to generate documentation")

Worlds(apiVersion) ==
    {w \in {[pages |-> ps, databases |-> ds] :
               ps \in RemotePageLists(apiVersion), ds \in RemoteDatabaseLists} : Acyclic(w)}

Idle ==
    /\ pc = "start"
    /\ connection = "untested"
    /\ pages = <<>>
    /\ allDatabases = <<>>
    /\ documentation = EmptyDocumentation
    /\ formatted = {}
    /\ again = FALSE
    /\ trees = [r \in Renderers |-> NoTree]
    /\ lastOutput = [r \in Renderers |-> <<>>]
    /\ formatIndex = 1
    /\ generatedFiles = <<>>
    /\ disk = {}
    /\ response = NoResponse

(* the server as app.listen leaves it *)
ServerStarted ==
    /\ tempFiles = {}
    /\ fileIds = 0
    /\ tick = FALSE

(* no document has been laid out *)
NoLayout == [pdf |-> <<>>, docx |-> <<>>]

(* the steps of the progress list, in the order handleFormSubmit takes them *)
Steps == <<"connecting", "fetchingPages", "fetchingDatabases", "generating">>

(* The page once DOMContentLoaded has run: currentProgress as it is declared,
   the three sections not displayed, the button enabled, no submission yet.
   step is the position of handleFormSubmit (0 outside of it), rejected the
   step whose request failed in the latest submission, outcome what the
   latest submission came to, until a click on a button of the sections
   dismisses it. *)
UiLoaded ==
    [currentProgress |-> [i \in 1..Len(Steps) |-> "pending"],
     progressSection |-> FALSE, resultsSection |-> FALSE, errorSection |-> FALSE,
     disabled |-> FALSE, step |-> 0, rejected |-> 0, outcome |-> "none",
     submissions |-> 0]

(* the requests the server handles side by side *)
Handlers == {1, 2}

(* a handler no request has reached *)
NoHandler ==
    [pc |-> "idle", workspaceName |-> <<>>, formats |-> <<>>, baseFilename |-> <<>>,
     index |-> 1, filePath |-> "", generatedFiles |-> <<>>, downloaded |-> {}]

AsideIdle ==
    /\ layout = NoLayout
    /\ handlers = [h \in Handlers |-> NoHandler]
    /\ contents = EmptyMap
    /\ now = 0
    /\ ui = UiLoaded

(* a workspace name of letters only *)
Acme == <<"A", "c", "m", "e">>

(* the options of a run of the CLI that asks its questions at the prompt *)
Interactive ==
    [nonInteractive |-> FALSE, format |-> "markdown", workspaceName |-> <<>>,
     includeSchema |-> FALSE, includeItems |-> FALSE, apiVersion |-> "2025-09-03"]

(* a run of the CLI against a workspace that answers *)
Init ==
    /\ config \in Configs
    /\ world \in Worlds(config.apiVersion)
    /\ api = [credential |-> "valid", down |-> {}]
    /\ request = [entry |-> "cli", formats |-> <<>>, workspaceName |-> Acme,
                  options |-> Interactive, fileId |-> 0]
    /\ unwritable = {}
    /\ Idle
    /\ ServerStarted
    /\ AsideIdle

(* testConnection at the head of the CLI action and of POST /api/generate,
   after the checks of the request body *)
Connect ==
    /\ pc = "start"
    /\ request.entry \in {"cli", "/api/generate"}
    /\ IF (request.entry = "/api/generate"
           /\ (Len(request.workspaceName) = 0 \/ Len(request.formats) = 0))
       THEN /\ pc' = "rejected"
            /\ response' = HttpError("400", "Workspace name and formats are required", "")
            /\ UNCHANGED connection
       ELSE \E result \in {testConnection(api)} :
              /\ connection' = IF result.threw THEN "threw"
                               ELSE IF result.value THEN "true" ELSE "false"
              /\ IF result.threw
                 THEN /\ pc' = "rejected"
                      /\ response' =
                            IF request.entry = "cli" THEN CliCatch(result.error)
                            ELSE HttpError("401", "Invalid API token",
                                           Or(result.error.message, InvalidTokenMessage))
                 ELSE IF request.entry = "cli" /\ ~result.value
                 THEN /\ pc' = "rejected"
                      /\ response' = Exit("1",
                            "Failed to connect to Notion API. Please check your API key.",
                            <<>>)
                 ELSE /\ pc' = "connected"
                      /\ UNCHANGED response
    /\ UNCHANGED <<asideVars, serverVars, envVars, fetchVars, renderVars, genVars>>

FetchPages ==
    /\ pc = "connected"
    /\ \E result \in {getAllPages(api, world)} :
          IF result.threw
          THEN /\ pc' = "rejected"
               /\ response' = Catch(request.entry, result.error)
               /\ UNCHANGED pages
          ELSE /\ pc' = "pagesFetched"
               /\ pages' = result.value
               /\ UNCHANGED response
    /\ UNCHANGED <<asideVars, serverVars, envVars, connection, allDatabases, documentation, renderVars, genVars>>

FetchDatabases ==
    /\ pc = "pagesFetched"
    /\ \E result \in {getAllDatabases(api, world, config.apiVersion,
                                      config.includeSchema, config.includeItems)} :
          IF result.threw
          THEN /\ pc' = "rejected"
               /\ response' = Catch(request.entry, result.error)
               /\ UNCHANGED allDatabases
          ELSE /\ pc' = "databasesFetched"
               /\ allDatabases' = result.value
               /\ UNCHANGED response
    /\ UNCHANGED <<asideVars, serverVars, envVars, connection, pages, documentation, renderVars, genVars>>

Assemble ==
    /\ pc = "databasesFetched"
    /\ documentation' = CreateDocumentation(config, pages, allDatabases)
    /\ pc' = "assembled"
    /\ UNCHANGED <<asideVars, serverVars, envVars, connection, pages, allDatabases, renderVars, genVars, response>>

(* formatter.format(documentation) of one renderer *)
Format(r) ==
    /\ pc = "assembled"
    /\ \E tree \in {BuildTree(r, documentation)} :
          /\ trees' = [trees EXCEPT ![r] = tree]
          /\ lastOutput' = [lastOutput EXCEPT ![r] = Render(r, documentation, tree)]
    /\ documentation' = AggregateAfter(r, documentation)
    /\ formatted' = formatted \cup {r}
    /\ again' = (again \/ formatted = Renderers)
    /\ UNCHANGED <<asideVars, serverVars, envVars, pc, connection, pages, allDatabases, genVars, response>>

Next ==
    \/ Connect
    \/ FetchPages
    \/ FetchDatabases
    \/ Assemble
    \/ \E r \in Renderers : Format(r)

Spec == Init /\ [][Next]_vars

(***************************************************************************)
(* The handlers against an API that may fail, and the format loops.        *)
(***************************************************************************)
(* the formats a request may name *)
RequestFormats == {"markdown", "tree", "numbered", "numbered-txt"}

FormatLists ==
    UNION {{formats \in [1..n -> RequestFormats] :
               \A i, j \in 1..n : formats[i] = formats[j] => i = j} : n \in 0..MaxFormats}

(* a workspace of a page, two databases and a row of the first database *)
ServiceWorld(apiVersion) ==
    [pages |-> <<RemotePage(1, WorkspaceParent),
                 RemotePage(2, ItemParent(apiVersion, DatabaseId(1)))>>,
     databases |-> <<RemoteDatabase(1, WorkspaceParent, 1),
                     RemoteDatabase(2, WorkspaceParent, 1)>>]

(* the requests that do not get through during a run *)
FailureSets(w) ==
    {down \in SUBSET (ApiCalls \cup EntityRequests(w)) : Cardinality(down) <= MaxFailures}

ServiceInit ==
    /\ config \in {c \in Configs : c.includeSchema /\ c.includeItems}
    /\ world = ServiceWorld(config.apiVersion)
    /\ api \in [credential : {"valid", "invalid"}, down : FailureSets(world)]
    /\ request \in [entry : {"cli", "/api/generate"}, formats : FormatLists,
                    workspaceName : {Acme}, options : {Interactive}, fileId : {0}]
                   \cup [entry : {"/api/pages", "/api/databases"}, formats : {<<>>},
                         workspaceName : {Acme}, options : {Interactive}, fileId : {0}]
    /\ unwritable \in SUBSET Range(request.formats)
    /\ Idle
    /\ ServerStarted
    /\ AsideIdle

(* 60 * 60 * 1000 milliseconds, in quanta of the clock *)
OneHour == 2

(* fileInfo.createdAt < oneHourAgo, the age being Date.now() - createdAt *)
Expired(fileInfo) == fileInfo.age > OneHour

(* cleanupOldFiles: what stays in the map *)
cleanupOldFiles(files) == {fileInfo \in files : ~Expired(fileInfo)}

(* cleanupOldFiles: what stays on the disk after the fs.unlink of the old files *)
Unlinked(files, paths) == paths \ {fileInfo.path : fileInfo \in files \ cleanupOldFiles(files)}

(* one turn of the format loop: of the CLI action, where a throw leaves the
   loop for the catch of the action, and of POST /api/generate, where the
   catch inside the loop logs and goes on and a file written is put in
   tempFiles under a new id *)
GenerateFormat ==
    /\ pc = "assembled"
    /\ request.entry \in {"cli", "/api/generate"}
    /\ formatIndex <= Len(request.formats)
    /\ LET format == request.formats[formatIndex] IN
       \E result \in {WriteFormat(request.entry, request.workspaceName, format, unwritable)} :
          IF result.threw
          THEN IF request.entry = "cli"
               THEN /\ pc' = "done"
                    /\ response' = CliCatch(result.error)
                    /\ UNCHANGED <<genVars, tempFiles, fileIds>>
               ELSE /\ formatIndex' = formatIndex + 1
                    /\ UNCHANGED <<pc, response, generatedFiles, disk, tempFiles, fileIds>>
          ELSE IF request.entry = "cli"
          THEN /\ disk' = disk \cup {result.value}
               /\ generatedFiles' =
                     Append(generatedFiles,
                            [path |-> result.value, format |-> Undefined, id |-> 0])
               /\ formatIndex' = formatIndex + 1
               /\ UNCHANGED <<pc, response, tempFiles, fileIds>>
          ELSE /\ disk' = disk \cup {result.value}
               /\ fileIds' = fileIds + 1
               /\ tempFiles' = tempFiles \cup {[id |-> fileIds', path |-> result.value,
                                                age |-> 0]}
               /\ generatedFiles' =
                     Append(generatedFiles,
                            [path |-> result.value, format |-> format, id |-> fileIds'])
               /\ formatIndex' = formatIndex + 1
               /\ UNCHANGED <<pc, response>>
    /\ UNCHANGED <<asideVars, tick, envVars, connection, fetchVars, renderVars>>

(* after the loop: the CLI prints the files; the server cleans up the old
   files and answers with the files of the request *)
Finish ==
    /\ pc = "assembled"
    /\ request.entry \in {"cli", "/api/generate"}
    /\ formatIndex > Len(request.formats)
    /\ pc' = "done"
    /\ IF request.entry = "cli"
       THEN /\ response' = Exit("0", "", generatedFiles)
            /\ UNCHANGED <<disk, tempFiles>>
       ELSE /\ tempFiles' = cleanupOldFiles(tempFiles)
            /\ disk' = Unlinked(tempFiles, disk)
            /\ response' = HttpSuccess(generatedFiles, 0)
    /\ UNCHANGED <<asideVars, fileIds, tick, envVars, connection, fetchVars, renderVars,
                   formatIndex, generatedFiles>>

(* POST /api/pages *)
ServePages ==
    /\ pc = "start"
    /\ request.entry = "/api/pages"
    /\ \E result \in {getAllPages(api, world)} :
          IF result.threw
          THEN /\ response' = ServerCatch(result.error, "Failed to fetch pages")
               /\ UNCHANGED pages
          ELSE /\ response' = HttpSuccess(<<>>, Len(result.value))
               /\ pages' = result.value
    /\ pc' = "answered"
    /\ UNCHANGED <<asideVars, serverVars, envVars, connection, allDatabases, documentation, renderVars, genVars>>

(* POST /api/databases: getAllDatabases(includeSchema, includeItems), so the
   second argument of the call is includeDataSources and fetchPages is left
   to its default *)
ServeDatabases ==
    /\ pc = "start"
    /\ request.entry = "/api/databases"
    /\ \E result \in {getAllDatabases(api, world, config.apiVersion,
                                      config.includeItems, FALSE)} :
          IF result.threw
          THEN /\ response' = ServerCatch(result.error, "Failed to fetch databases")
               /\ UNCHANGED allDatabases
          ELSE /\ response' = HttpSuccess(<<>>, Len(result.value))
               /\ allDatabases' = result.value
    /\ pc' = "answered"
    /\ UNCHANGED <<asideVars, serverVars, envVars, connection, pages, documentation, renderVars, genVars>>

NextService ==
    \/ Connect
    \/ FetchPages
    \/ FetchDatabases
    \/ Assemble
    \/ GenerateFormat
    \/ Finish
    \/ ServePages
    \/ ServeDatabases

SpecService == ServiceInit /\ [][NextService]_vars

(***************************************************************************)
(* A run of the CLI against a database whose property has a '|' in its    *)
(* name, in an option, in its expression or in its description.            *)
(***************************************************************************)
(* the properties the API may answer with *)
PipedProperties ==
    {[id |-> "px", name |-> name, type |-> schema.type, optionNames |-> schema.optionNames,
      expression |-> schema.expression, relationTarget |-> Undefined,
      description |-> description] :
        name \in {"Name", "A|B"},
        description \in {Undefined, "note", "x|y"},
        schema \in [type : {"rich_text"}, optionNames : {<<>>}, expression : {Undefined}]
               \cup [type : {"select"}, optionNames : {<<"Done">>, <<"x|y", "Done">>},
                     expression : {Undefined}]
               \cup [type : {"formula"}, optionNames : {<<>>},
                     expression : {"a  ||  b", "prop( {{notion:block_property:st}} )  +  1"}]}

EncodingInit ==
    /\ config \in {c \in Configs : c.includeSchema /\ ~c.includeItems}
    /\ world \in {[pages |-> <<>>,
                   databases |-> <<[id |-> DatabaseId(1), title |-> DatabaseTitleOf(1),
                                    url |-> NotionUrl(DatabaseId(1)),
                                    parent |-> WorkspaceParent, schema |-> <<property>>]>>] :
                     property \in PipedProperties}
    /\ api = [credential |-> "valid", down |-> {}]
    /\ request = [entry |-> "cli", formats |-> <<>>, workspaceName |-> Acme,
                  options |-> Interactive, fileId |-> 0]
    /\ unwritable = {}
    /\ Idle
    /\ ServerStarted
    /\ AsideIdle

SpecEncoding == EncodingInit /\ [][Next]_vars

(***************************************************************************)
(* One generation, for any workspace name and any format: the CLI run      *)
(* with --non-interactive, and POST /api/generate.                         *)
(***************************************************************************)
(* the default of options.workspaceName *)
NotionWorkspace ==
    <<"N", "o", "t", "i", "o", "n", " ", "W", "o", "r", "k", "s", "p", "a", "c", "e">>

(* the names a workspace may be given *)
Names == UNION {[1..n -> {"a", "7", " ", "!", "_"}] : n \in 0..MaxNameLen}

(* what commander hands to the action for a command line with --non-interactive *)
CliOptions ==
    [nonInteractive : {TRUE}, format : CliFormats \cup {"all"}, workspaceName : Names,
     includeSchema : BOOLEAN, includeItems : BOOLEAN, apiVersion : ApiVersions]

(* includeSchema: options.includeSchema || true *)
NonInteractiveIncludeSchema(options) == options.includeSchema \/ TRUE

(* the config the CLI action builds from the options *)
NonInteractiveConfig(options) ==
    [includeSchema |-> NonInteractiveIncludeSchema(options),
     includeItems |-> options.includeItems \/ FALSE,
     apiVersion |-> IF options.apiVersion = "2022-06-28" THEN "2022-06-28"
                    ELSE "2025-09-03"]

NonInteractiveFormats(options) ==
    IF options.format = "all"
    THEN <<"json", "markdown", "csv", "tree", "numbered-txt", "docx", "pdf">>
    ELSE <<Or(options.format, "numbered-txt")>>

NonInteractiveRequest(options) ==
    [entry |-> "cli", formats |-> NonInteractiveFormats(options),
     workspaceName |-> IF options.workspaceName = <<>> THEN NotionWorkspace
                       ELSE options.workspaceName,
     options |-> options, fileId |-> 0]

(* the bodies of POST /api/generate that name one format *)
GenerateRequests ==
    [entry : {"/api/generate"}, formats : {<<format>> : format \in ServerFormats},
     workspaceName : Names, options : {Interactive}, fileId : {0}]

FilesInit ==
    /\ request \in {NonInteractiveRequest(options) : options \in CliOptions}
                       \cup GenerateRequests
    /\ config \in IF request.entry = "cli" THEN {NonInteractiveConfig(request.options)}
                   ELSE {c \in Configs : c.includeItems}
    /\ world = ServiceWorld(config.apiVersion)
    /\ api = [credential |-> "valid", down |-> {}]
    /\ unwritable = {}
    /\ Idle
    /\ ServerStarted
    /\ AsideIdle

NextFiles ==
    \/ Connect
    \/ FetchPages
    \/ FetchDatabases
    \/ Assemble
    \/ GenerateFormat
    \/ Finish

SpecFiles == FilesInit /\ [][NextFiles]_vars

(***************************************************************************)
(* Properties of the forests and of the bodies.                            *)
(***************************************************************************)
(* the nodes met from a node down, a node once for every path that leads to it *)
RECURSIVE Walk(_, _)
Walk(heap, h) ==
    <<h>> \o Flatten([i \in 1..Len(heap[h].children) |-> Walk(heap, heap[h].children[i])])

ForestWalk(tree) ==
    Flatten([i \in 1..Len(tree.rootNodes) |-> Walk(tree.heap, tree.rootNodes[i])])

(* how many nodes of the forest carry the id *)
Occurrences(tree, id) ==
    Len(Filter(ForestWalk(tree), LAMBDA h : tree.heap[h].id = id))

IsRoot(tree, id) ==
    \E i \in 1..Len(tree.rootNodes) : tree.heap[tree.rootNodes[i]].id = id

Listed(data) == Range(data.pages) \cup Range(data.databases)

NonEmpty(data) == Len(data.pages) > 0 \/ Len(data.databases) > 0

DataSourcesOf(data) == Range(Flatten(MapSeq(data.databases, LAMBDA db : db.dataSources)))

(* C1: in the forest of each of the three renderers, every page id of the page
   list and every database id of the database list of a non-empty aggregate
   is carried by exactly one node reachable from the roots: none is missing
   and none appears twice. *)
C1_EveryListedIdOnce ==
    \A r \in formatted :
        NonEmpty(documentation) =>
            \A e \in Listed(documentation) : Occurrences(trees[r], e.id) = 1

(* C2: with includeItems set, every item page of a data source appears
   exactly once in the forest of every renderer, as a child of the "Data
   source pages" section of its data source, and is no root. *)
C2_ItemPageOnceUnderItsSection ==
    \A r \in formatted :
        documentation.includeItems =>
            \A ds \in DataSourcesOf(documentation) : \A page \in Range(ds.pages) :
                /\ Occurrences(trees[r], page.id) = 1
                /\ ~IsRoot(trees[r], page.id)
                /\ \E h \in Range(ForestWalk(trees[r])) :
                      LET section == trees[r].heap[h] IN
                      /\ section.id = ds.id \o "-pages"
                      /\ section.title = "Data source pages"
                      /\ \E i \in 1..Len(section.children) :
                            trees[r].heap[section.children[i]].id = page.id

NoNodeWithId(tree, id) == \A h \in 1..Len(tree.heap) : tree.heap[h].id # id

(* C3: in the forest of every renderer, a page or a database of the aggregate
   whose parent id is the id of no node the builder created is one of the
   root nodes (so it is in the forest, and the forest was built). *)
C3_OrphanBecomesRoot ==
    \A r \in formatted : \A e \in Listed(documentation) :
        NoNodeWithId(trees[r], e.parent.id) =>
            /\ IsRoot(trees[r], e.id)
            /\ Occurrences(trees[r], e.id) = 1

(* a page under a page that is not shared and a database under a block that
   cannot be read are roots of the three forests *)
C3_Witness ==
    /\ formatted = Renderers
    /\ \E page \in Range(documentation.pages) :
          /\ page.parent.id = UnsharedPageId
          /\ \A r \in Renderers : IsRoot(trees[r], page.id)
    /\ \E database \in Range(documentation.databases) :
          /\ database.parent.id = InaccessibleBlockId
          /\ \A r \in Renderers : IsRoot(trees[r], database.id)

(* C4: for the aggregate with no page and no database, the body of every
   renderer holds the line "No accessible content found.", and no body is
   empty. *)
C4_EmptyAggregateSaysNoContent ==
    \A r \in formatted :
        ~NonEmpty(documentation) =>
            /\ lastOutput[r] # <<>>
            /\ \E i \in 1..Len(lastOutput[r]) :
                  lastOutput[r][i] = "No accessible content found."

NodeTypes(tree) == {tree.heap[h].type : h \in 1..Len(tree.heap)}

(* C5: with includeSchema off, the forest of each of the three renderers has
   no properties-section node (and no property node). *)
C5_NoPropertiesWithoutSchema ==
    \A r \in formatted :
        ~documentation.includeSchema =>
            NodeTypes(trees[r]) \cap {"properties-section", "property"} = {}

(* the workspace has a database with a schema, the run leaves the schema out,
   and the database is in the three forests *)
C5_Witness ==
    /\ formatted = Renderers
    /\ ~documentation.includeSchema
    /\ \E database \in Range(world.databases) :
          /\ Len(database.schema) > 0
          /\ \A r \in Renderers : Occurrences(trees[r], database.id) = 1

ItemPageIds == {page.id : page \in {q \in Range(pages) : IsItemPage(q)}}

(* C6: with includeItems off, no page whose parent type is database or data
   source is in the forest of any renderer, at any place. *)
C6_NoItemPagesWithoutItems ==
    \A r \in formatted :
        ~documentation.includeItems =>
            \A h \in 1..Len(trees[r].heap) : trees[r].heap[h].id \notin ItemPageIds

(* the workspace has a row of a database and a page that is no row, the run
   leaves the rows out, and the other page is in the three forests *)
C6_Witness ==
    /\ formatted = Renderers
    /\ ~documentation.includeItems
    /\ ItemPageIds # {}
    /\ \E page \in Range(documentation.pages) :
          \A r \in Renderers : Occurrences(trees[r], page.id) = 1

(* C7: once the aggregate is assembled, a format call of a renderer that was
   called before returns the body it returned then, whichever renderers ran
   in between, and no format call changes the aggregate. *)
C7_FormatIsRepeatable ==
    [][pc = "assembled" =>
          /\ documentation' = documentation
          /\ \A r \in formatted : lastOutput'[r] = lastOutput[r]]_vars

(* every renderer has run and one of them has run again after that, on an
   aggregate that has a schema of several properties *)
C7_Witness ==
    /\ formatted = Renderers
    /\ again
    /\ \E database \in Range(documentation.databases) :
          \/ Len(database.properties) > 1
          \/ \E ds \in Range(database.dataSources) : Len(ds.properties) > 1

Selected == Range(request.formats)

Throws(format) == WriteFormat(request.entry, request.workspaceName, format, unwritable).threw

(* C8: at the end of a generation, every selected format whose own writing
   does not throw has been generated, whichever other formats threw: the ones
   before a throw are kept and the ones after it are still written. *)
C8_OtherFormatsStillGenerated ==
    pc = "done" => \A format \in Selected : ~Throws(format) => FilePath(request.workspaceName, format) \in disk

ReportedSucceeded ==
    {format \in Selected : \E i \in 1..Len(response.files) :
                              response.files[i].path = FilePath(request.workspaceName, format)}

ReportedFailed ==
    {format \in Selected :
        response.message \in {UnsupportedFormatMessage(format), WriteErrorMessage(request.workspaceName, format)}}

(* C9: when a format failed during a generation, the result names every
   format that was generated as generated and every format that failed as
   failed; a result that reports success leaves out no failed format. *)
C9_FailuresReportedPerFormat ==
    (pc = "done" /\ \E format \in Selected : Throws(format)) =>
        \A i \in 1..Len(request.formats) :
            LET format == request.formats[i] IN
            /\ FilePath(request.workspaceName, format) \in disk => format \in ReportedSucceeded
            /\ (i <= formatIndex /\ Throws(format)) => format \in ReportedFailed

(* the calls of the API the handler made *)
CallsMade ==
    CASE request.entry \in {"/api/pages", "/api/databases"} -> {"search"}
      [] connection = "untested" -> {}
      [] connection = "threw" -> {"users"}
      [] request.entry = "cli" /\ connection = "false" -> {"users"}
      [] OTHER -> {"users", "search"}

(* C10: when the API rejects the token, testConnection throws and does not
   return false, and the endpoints of the server answer 401 'Invalid API
   token'; when a call fails otherwise, testConnection returns false and the
   endpoints answer 500. *)
C10_InvalidTokenIsDistinct ==
    /\ connection # "untested" =>
          connection = CASE Outcome(api, "users") = "unauthorized" -> "threw"
                         [] Outcome(api, "users") = "failure" -> "false"
                         [] OTHER -> "true"
    /\ (response.kind = "http" /\ response.status # "400") =>
          IF \E call \in CallsMade : Outcome(api, call) = "unauthorized"
          THEN response.status = "401" /\ response.error = "Invalid API token"
          ELSE IF Outcome(api, "search") = "failure"
          THEN response.status = "500"
          ELSE response.status = "200"

(***************************************************************************)
(* Partial results of the fetch.                                           *)
(***************************************************************************)
(* the messages of the errors getAllPages and getAllDatabases throw when a
   request fails for another reason than the token *)
FetchFailedMessages ==
    {"Failed to fetch pages: " \o ClientError("failure").message,
     "Failed to fetch databases: " \o ClientError("failure").message}

PagesReturned ==
    \/ pc \in {"pagesFetched", "databasesFetched", "assembled", "done"}
    \/ pc = "answered" /\ request.entry = "/api/pages" /\ response.success

DatabasesReturned ==
    \/ pc \in {"databasesFetched", "assembled", "done"}
    \/ pc = "answered" /\ request.entry = "/api/databases" /\ response.success

(* the requests made for a database itself *)
OwnRequestsSucceeded(database) ==
    config.apiVersion = "2025-09-03" => Outcome(api, RetrieveDatabase(database.id)) = "ok"

(* C11: with a valid token, a request that fails while pages, databases or
   data sources are listed never makes the whole fetch fail: the fetch
   returns, every page of the workspace is returned, every database whose own
   retrieve succeeded is returned, and such a database carries every data
   source whose own request succeeded. *)
C11_FailureSkipsOnlyAffectedEntity ==
    api.credential = "valid" =>
        /\ response.message \notin FetchFailedMessages
        /\ PagesReturned =>
              \A page \in Range(world.pages) : \E got \in Range(pages) : got.id = page.id
        /\ DatabasesReturned =>
              \A database \in Range(world.databases) :
                  OwnRequestsSucceeded(database) =>
                      \E got \in Range(allDatabases) :
                          /\ got.id = database.id
                          /\ (/\ config.apiVersion = "2025-09-03"
                              /\ request.entry # "/api/databases"
                              /\ Outcome(api, GetDataSource(DataSourceId(database.id))) = "ok")
                             => \E ds \in Range(got.dataSources) :
                                    ds.id = DataSourceId(database.id)

(***************************************************************************)
(* The numbered outline.                                                   *)
(***************************************************************************)
(* the places of a forest in depth-first pre-order: the path of 1-based
   sibling indexes that leads to each place, and the node that stands there *)
RECURSIVE PreOrder(_, _, _)
PreOrder(heap, nodes, prefix) ==
    Flatten([j \in 1..Len(nodes) |->
                <<[path |-> Append(prefix, j), h |-> nodes[j]]>>
                \o PreOrder(heap, heap[nodes[j]].children, Append(prefix, j))])

(* the label of a place: 'i' for root i, 'p.j' for child j of the place labelled p *)
RECURSIVE Label(_)
Label(path) ==
    IF Len(path) = 1 THEN ToString(path[1])
    ELSE Label(SubSeq(path, 1, Len(path) - 1)) \o "." \o ToString(path[Len(path)])

(* the aggregate of a page Home at the top of the workspace and a page Sub under it *)
HomeWithSub ==
    /\ Len(documentation.databases) = 0
    /\ Len(documentation.pages) = 2
    /\ documentation.pages[1].title = "Home"
    /\ documentation.pages[1].parent.type = "workspace"
    /\ documentation.pages[2].title = "Sub"
    /\ documentation.pages[2].parent.id = documentation.pages[1].id

(* C14: the numbered outline holds one line per node of the forest, in
   depth-first pre-order, each made of the label of the place and the title of
   the node; the root page Home with its child page Sub gives '1 Home page'
   and '1.1 Sub page'. *)
C14_OneLabelledLinePerNode ==
    "numbered" \in formatted =>
        LET tree == trees["numbered"]
            order == PreOrder(tree.heap, tree.rootNodes, <<>>)
            out == lastOutput["numbered"]
        IN /\ Len(out) = Len(order)
           /\ \A k \in 1..Len(order) :
                 out[k] = Label(order[k].path) \o " " \o tree.heap[order[k].h].title
           /\ HomeWithSub => out = <<"1 Home page", "1.1 Sub page">>

C14_Witness ==
    /\ "numbered" \in formatted
    /\ HomeWithSub
    /\ Len(lastOutput["numbered"]) = 2

(***************************************************************************)
(* The schema of a legacy database in the tree.                            *)
(***************************************************************************)
NodesWithId(tree, id, type) ==
    {h \in 1..Len(tree.heap) : tree.heap[h].id = id /\ tree.heap[h].type = type}

(* the databases of the aggregate in the legacy shape: properties of their
   own and no data source *)
LegacyDatabases(data) ==
    {database \in Range(data.databases) :
        Len(database.properties) >= 1 /\ Len(database.dataSources) = 0}

(* C15: with the schema and without the items, the node the tree renderer
   builds for a legacy database of n >= 1 properties has exactly one child, a
   section titled 'properties:' that holds n property nodes, and no items
   section; the status property Status with the option Done reads
   'Status (status) [Done]'. *)
C15_LegacyDatabaseShowsItsSchema ==
    ("tree" \in formatted /\ documentation.includeSchema /\ ~documentation.includeItems) =>
        \A database \in LegacyDatabases(documentation) :
            /\ NodesWithId(trees["tree"], database.id, "database") # {}
            /\ \A h \in NodesWithId(trees["tree"], database.id, "database") :
                  LET heap == trees["tree"].heap
                      children == heap[h].children
                  IN /\ Len(children) = 1
                     /\ heap[children[1]].type = "properties-section"
                     /\ heap[children[1]].title = "properties:"
                     /\ Len(heap[children[1]].children) = Len(database.properties)
                     /\ \A i \in 1..Len(heap[children[1]].children) :
                           heap[heap[children[1]].children[i]].type = "property"
                     /\ (\E property \in Range(database.properties) :
                            /\ property.name = "Status"
                            /\ property.type = "status"
                            /\ property.options = [kind |-> "list", names |-> <<"Done">>])
                        => \E i \in 1..Len(heap[children[1]].children) :
                              heap[heap[children[1]].children[i]].title
                                 = "Status (status) [Done]"

C15_Witness ==
    /\ "tree" \in formatted
    /\ documentation.includeSchema
    /\ ~documentation.includeItems
    /\ \E database \in LegacyDatabases(documentation) :
          \E property \in Range(database.properties) : property.type = "status"

(***************************************************************************)
(* Relation properties.                                                    *)
(***************************************************************************)
(* the relation properties of the schemas of the aggregate that name a target *)
RelationProperties(data) ==
    {property \in UNION {Range(database.properties)
                            \cup UNION {Range(dataSource.properties) :
                                           dataSource \in Range(database.dataSources)} :
                         database \in Range(data.databases)} :
        property.type = "relation" /\ Truthy(property.options.database_id)}

(* what stands for the target of a relation: the title of the database of the
   list with that id, the id itself when the list holds none *)
TargetShown(data, property) ==
    LET targets == {database \in Range(data.databases) :
                       database.id = property.options.database_id}
    IN IF targets # {} THEN (CHOOSE database \in targets : TRUE).title
       ELSE property.options.database_id

(* the title of the node of a one-way relation without limit that shows the target *)
RelationTitle(r, property, shown) ==
    IF r = "markdown"
    THEN <<property.name, "|",
           property.id \o ", relation, -> " \o shown \o " (one-way, no limit)">>
    ELSE property.name \o " (relation) -> " \o shown \o " (one-way, no limit)"

PropertyTitles(tree) ==
    {tree.heap[h].title : h \in {n \in 1..Len(tree.heap) : tree.heap[n].type = "property"}}

(* C16: formatting a relation property returns a title in every renderer: in
   the forest of each renderer that ran, every relation property shows the
   title of its target database when the list of databases holds the target,
   and the raw id of the target when it does not. *)
C16_RelationShowsTitleOrRawId ==
    \A r \in formatted :
        \A property \in RelationProperties(documentation) :
            RelationTitle(r, property, TargetShown(documentation, property))
                \in PropertyTitles(trees[r])

C16_Witness ==
    /\ formatted = Renderers
    /\ \E property \in RelationProperties(documentation) :
          TargetShown(documentation, property) = property.options.database_id
    /\ \E property \in RelationProperties(documentation) :
          TargetShown(documentation, property) # property.options.database_id

(***************************************************************************)
(* The metadata bullets of the Markdown output.                            *)
(***************************************************************************)
HeadingLine(level, title) == Repeat("#", level) \o " " \o title

IdBullet(id) == "- **ID:** '" \o id \o "'"

(* the places of the Markdown forest whose heading is not followed by the ID
   bullet of the node *)
HeadingsWithoutBullets ==
    LET tree == trees["markdown"]
        order == PreOrder(tree.heap, tree.rootNodes, <<>>)
        out == lastOutput["markdown"]
    IN {k \in 1..Len(order) :
          LET node == tree.heap[order[k].h] IN
          /\ node.type \in {"page", "database", "data-source"}
          /\ ~\E n \in 1..(Len(out) - 1) :
                 /\ out[n] = HeadingLine(Len(order[k].path), node.title)
                 /\ out[n + 1] = IdBullet(node.id)}

(* C18: in the Markdown output the heading of every page, database and
   data-source node, the rows under 'Data source pages' included, is followed
   by the metadata bullets of the node, the ID bullet first. *)
C18_HeadingFollowedByBullets ==
    "markdown" \in formatted => HeadingsWithoutBullets = {}

(***************************************************************************)
(* The order of the roots and of the siblings.                             *)
(***************************************************************************)
(* the place of an entity in the order of creation: the pages in the order
   of the list, then the databases in the order of the list; 0 for an id of
   neither list *)
DiscoveryIndex(data, id) ==
    LET asPage == {i \in 1..Len(data.pages) : data.pages[i].id = id}
        asDatabase == {i \in 1..Len(data.databases) : data.databases[i].id = id}
    IN IF asPage # {} THEN CHOOSE i \in asPage : TRUE
       ELSE IF asDatabase # {} THEN Len(data.pages) + (CHOOSE i \in asDatabase : TRUE)
       ELSE 0

(* the roots stand in the reverse of the order of creation *)
RootsInReverseDiscoveryOrder(data, tree) ==
    \A i, j \in 1..Len(tree.rootNodes) :
        i < j => DiscoveryIndex(data, tree.heap[tree.rootNodes[i]].id)
                    > DiscoveryIndex(data, tree.heap[tree.rootNodes[j]].id)

(* a stands before b in the order of the sort of the tree renderer: a
   properties section before everything else, an items section before
   everything but a properties section, a page before a database, and
   otherwise the smaller title first *)
SortsBefore(a, b) ==
    IF (a.type = "properties-section") # (b.type = "properties-section")
    THEN a.type = "properties-section"
    ELSE IF (a.type = "items-section") # (b.type = "items-section")
    THEN a.type = "items-section"
    ELSE IF {a.type, b.type} = {"page", "database"}
    THEN a.type = "page"
    ELSE CollationRank(a.title) <= CollationRank(b.title)

(* the order the claim C20 words: a properties section before an items
   section, a page before a database, and otherwise the smaller title first *)
OrderedAsClaimed(a, b) ==
    IF {a.type, b.type} = {"properties-section", "items-section"}
    THEN a.type = "properties-section"
    ELSE IF {a.type, b.type} = {"page", "database"}
    THEN a.type = "page"
    ELSE CollationRank(a.title) <= CollationRank(b.title)

(* the sibling groups of a forest: the children of each node *)
ChildGroups(tree) == {tree.heap[h].children : h \in 1..Len(tree.heap)}

(* C19, as claimed: in the forest of every renderer, of two roots the one
   created later (pages in list order, then databases in list order) stands
   first. *)
C19_RootsInReverseDiscoveryOrder ==
    \A r \in formatted : RootsInReverseDiscoveryOrder(documentation, trees[r])

(* C19, amended: the roots of the Markdown and of the numbered forest stand
   in the reverse of the order of creation; the roots of the tree renderer
   stand in the reverse of the order of its sort. *)
C19_RootsReversed ==
    /\ \A r \in formatted \ {"tree"} :
          RootsInReverseDiscoveryOrder(documentation, trees[r])
    /\ "tree" \in formatted =>
          LET tree == trees["tree"] IN
          \A i, j \in 1..Len(tree.rootNodes) :
              i < j => SortsBefore(tree.heap[tree.rootNodes[j]], tree.heap[tree.rootNodes[i]])

C19_Witness ==
    /\ formatted = Renderers
    /\ \A r \in Renderers : Len(trees[r].rootNodes) >= 2
    /\ ~RootsInReverseDiscoveryOrder(documentation, trees["tree"])

(* C20, as claimed: in the forest the tree renderer prints, every sibling
   group, the roots included, is in the claimed order. *)
C20_SiblingsSorted ==
    "tree" \in formatted =>
        LET tree == trees["tree"] IN
        \A group \in ChildGroups(tree) \cup {tree.rootNodes} :
            \A i, j \in 1..Len(group) :
                i < j => OrderedAsClaimed(tree.heap[group[i]], tree.heap[group[j]])

(* C20, amended: in the forest the tree renderer prints, the children of
   every node are in the order of the sort (a properties section first, then
   an items section, pages before databases, otherwise ascending titles), and
   the roots are in the reverse of that order. *)
C20_ChildrenSortedRootsReversed ==
    "tree" \in formatted =>
        LET tree == trees["tree"] IN
        /\ \A group \in ChildGroups(tree) :
              \A i, j \in 1..Len(group) :
                  i < j => SortsBefore(tree.heap[group[i]], tree.heap[group[j]])
        /\ \A i, j \in 1..Len(tree.rootNodes) :
              i < j => SortsBefore(tree.heap[tree.rootNodes[j]], tree.heap[tree.rootNodes[i]])

C20_Witness ==
    /\ "tree" \in formatted
    /\ Len(trees["tree"].rootNodes) >= 2
    /\ \E group \in ChildGroups(trees["tree"]) :
          \E i, j \in 1..Len(group) :
              /\ trees["tree"].heap[group[i]].type = "properties-section"
              /\ trees["tree"].heap[group[j]].type = "items-section"

(***************************************************************************)
(* The server while it is up: one request after the other, and the clock.  *)
(***************************************************************************)
(* the requests the server is sent: bodies of POST /api/generate that name
   one format, and GET /api/download/:fileId *)
ServerRequests ==
    [entry : {"/api/generate"}, formats : {<<"markdown">>, <<"tree">>},
     workspaceName : {<<"a">>, <<"7">>}, options : {Interactive}, fileId : {0}]
    \cup [entry : {"/api/download"}, formats : {<<>>}, workspaceName : {<<>>},
          options : {Interactive}, fileId : 1..MaxFiles]

ServerInit ==
    /\ config = [includeSchema |-> TRUE, includeItems |-> TRUE, apiVersion |-> "2025-09-03"]
    /\ world = ServiceWorld(config.apiVersion)
    /\ api \in [credential : {"valid", "invalid"}, down : {{}}]
    /\ request \in ServerRequests
    /\ unwritable = {}
    /\ Idle
    /\ ServerStarted
    /\ AsideIdle

(* GET /api/download/:fileId *)
ServeDownload ==
    /\ pc = "start"
    /\ request.entry = "/api/download"
    /\ response' =
          IF \A fileInfo \in tempFiles : fileInfo.id # request.fileId
          THEN HttpError("404", "File not found or expired", "")
          ELSE LET fileInfo == CHOOSE f \in tempFiles : f.id = request.fileId IN
               IF fileInfo.path \in disk
               THEN HttpSuccess(<<[path |-> fileInfo.path, format |-> Undefined,
                                   id |-> fileInfo.id]>>, 0)
               ELSE HttpError("500", "Failed to download file", "")
    /\ pc' = "answered"
    /\ UNCHANGED <<asideVars, serverVars, envVars, connection, fetchVars, renderVars, genVars>>

(* the next request reaches the server once the one before is answered; the
   time of the request is in the name of its files, so it writes no file that
   is on the disk already *)
NewRequest ==
    /\ pc \in {"done", "rejected", "answered"}
    /\ \E next \in ServerRequests :
          /\ next.entry = "/api/generate" =>
                /\ fileIds < MaxFiles
                /\ FilePath(next.workspaceName, next.formats[1]) \notin disk
          /\ request' = next
    /\ api' \in [credential : {"valid", "invalid"}, down : {{}}]
    /\ pc' = "start"
    /\ connection' = "untested"
    /\ pages' = <<>>
    /\ allDatabases' = <<>>
    /\ documentation' = EmptyDocumentation
    /\ formatIndex' = 1
    /\ generatedFiles' = <<>>
    /\ response' = NoResponse
    /\ UNCHANGED <<asideVars, serverVars, world, config, unwritable, renderVars, disk>>

(* Date.now() moves on by a quantum: every file of the map is a quantum
   older, the ages past the hour being kept as one age *)
Tick ==
    /\ tick' = ~tick
    /\ tempFiles' = {[fileInfo EXCEPT !.age = IF Expired(fileInfo) THEN fileInfo.age
                                              ELSE fileInfo.age + 1] :
                        fileInfo \in tempFiles}
    /\ UNCHANGED <<asideVars, fileIds, envVars, pc, connection, fetchVars, renderVars, genVars,
                   response>>

(* a step of the handler of the request *)
Handle ==
    \/ Connect
    \/ FetchPages
    \/ FetchDatabases
    \/ Assemble
    \/ GenerateFormat
    \/ Finish
    \/ ServeDownload

NextServer ==
    \/ Handle
    \/ NewRequest
    \/ Tick

(* the clock goes on and a handler that can go on does; whether a further
   request comes is up to the clients *)
SpecServer ==
    ServerInit /\ [][NextServer]_vars /\ WF_vars(Tick) /\ WF_vars(Handle)

(***************************************************************************)
(* The names of the files written.                                         *)
(***************************************************************************)
(* the format the i-th file written was asked for *)
FormatWritten(i) ==
    IF request.entry = "cli" THEN request.formats[i] ELSE generatedFiles[i].format

SuffixOfFormat(format) ==
    CASE format = "tree" -> "_tree"
      [] format \in {"numbered-txt", "numbered"} -> "_numbered"
      [] OTHER -> ""

(* <sanitized>_NWS_<date>-<time><suffix>.<ext>, the sanitized name made of
   letters, digits and underscores only *)
WellFormedName(pieces, format) ==
    \E k \in 0..Len(pieces) :
        /\ \A i \in 1..k : pieces[i] \in Alphanumeric \cup {"_"}
        /\ Len(pieces) = k + 7
        /\ SubSeq(pieces, k + 1, k + 6) =
              <<"_NWS_", dateStr, "-", timeStr, SuffixOfFormat(format), ".">>
        /\ pieces[k + 7] \in {"json", "md", "csv", "txt", "docx", "pdf"}

(* C12: every file written is named <sanitized>_NWS_<date>-<time><suffix>.<ext>
   in the output directory, where the sanitized workspace name holds letters,
   digits and underscores only and the suffix is _tree for the tree format,
   _numbered for the numbered text format and empty for the other formats. *)
C12_FileNames ==
    \A i \in 1..Len(generatedFiles) :
        LET pieces == FileNamePieces(request.workspaceName, FormatWritten(i)) IN
        /\ generatedFiles[i].path = "output/" \o Join(pieces, "")
        /\ generatedFiles[i].path \in disk
        /\ WellFormedName(pieces, FormatWritten(i))

(* a tree file and a numbered file written for names with a character that is
   dropped and white space that becomes an underscore *)
C12_Witness ==
    /\ pc = "done"
    /\ Len(generatedFiles) > 0
    /\ request.workspaceName \in {<<"!", " ">>, <<" ", " ">>}
    /\ FormatWritten(1) \in {"tree", "numbered", "numbered-txt"}
    /\ generatedFiles[1].path \in
          {"output/__NWS_2025-06-01-12-00-00_tree.txt",
           "output/__NWS_2025-06-01-12-00-00_numbered.txt"}

(***************************************************************************)
(* The schema in a run of the CLI with --non-interactive.                  *)
(***************************************************************************)
(* C17: in a run of the CLI with --non-interactive the schema is included
   exactly when --include-schema is passed: the aggregate carries the flag as
   it was passed, and without the flag every database of the aggregate has
   empty properties and empty dataSources. *)
C17_SchemaOnlyWhenAsked ==
    (request.entry = "cli" /\ request.options.nonInteractive
        /\ pc \in {"assembled", "done"}) =>
        /\ documentation.includeSchema = request.options.includeSchema
        /\ ~request.options.includeSchema =>
              \A database \in Range(documentation.databases) :
                  database.properties = <<>> /\ database.dataSources = <<>>

(***************************************************************************)
(* The files of the server after one hour.                                 *)
(***************************************************************************)
Registered(id) == \E fileInfo \in tempFiles : fileInfo.id = id

(* C13: every file registered for download is in the end, once it is older
   than one hour, removed from the disk and from the download registry, so
   that its download id answers 404. *)
C13_OldFilesRemoved ==
    \A id \in 1..MaxFiles : Registered(id) ~> ~Registered(id)

(***************************************************************************)
(* The properties of a data source in the forests.                         *)
(***************************************************************************)
(* the data sources of the aggregate that have a property *)
DataSourcesWithProperties(data) ==
    {dataSource \in DataSourcesOf(data) : Len(dataSource.properties) >= 1}

SectionsUnder(heap, h) ==
    {i \in 1..Len(heap[h].children) : heap[heap[h].children[i]].type = "properties-section"}

(* the node of the data source has one properties section, titled
   'Properties', that holds one property node per property, the last
   property of the list first *)
HasReversedPropertiesSection(tree, dataSource) ==
    /\ NodesWithId(tree, dataSource.id, "data-source") # {}
    /\ \A h \in NodesWithId(tree, dataSource.id, "data-source") :
          /\ Cardinality(SectionsUnder(tree.heap, h)) = 1
          /\ \A i \in SectionsUnder(tree.heap, h) :
                LET section == tree.heap[tree.heap[h].children[i]]
                    n == Len(dataSource.properties)
                IN /\ section.title = "Properties"
                   /\ Len(section.children) = n
                   /\ \A j \in 1..n :
                         /\ tree.heap[section.children[j]].type = "property"
                         /\ tree.heap[section.children[j]].id =
                               dataSource.id \o "-" \o dataSource.properties[n + 1 - j].id

(* the node of the data source holds the property nodes itself, one per
   property, and no properties section *)
HasPropertiesAsChildren(tree, dataSource) ==
    /\ NodesWithId(tree, dataSource.id, "data-source") # {}
    /\ \A h \in NodesWithId(tree, dataSource.id, "data-source") :
          /\ SectionsUnder(tree.heap, h) = {}
          /\ \A property \in Range(dataSource.properties) :
                Cardinality({i \in 1..Len(tree.heap[h].children) :
                                LET child == tree.heap[tree.heap[h].children[i]] IN
                                /\ child.type = "property"
                                /\ child.id = dataSource.id \o "-" \o property.id}) = 1

(* C21 as stated: with the schema, in the forest of every renderer, the node
   of each data source that has a property has exactly one properties section
   titled 'Properties', whose children are the property nodes, one per
   property, in the reverse of the order of the property list. *)
C21_PropertiesSectionInEveryForest ==
    documentation.includeSchema =>
        \A r \in formatted : \A dataSource \in DataSourcesWithProperties(documentation) :
            HasReversedPropertiesSection(trees[r], dataSource)

(* C21, amended: with the schema, in the forests of the Markdown and of the
   numbered renderer, the node of each data source that has a property has
   exactly one properties section titled 'Properties', whose children are the
   property nodes, one per property, in the reverse of the order of the
   property list; in the forest of the tree renderer the property nodes, one
   per property, are children of the data source node itself and there is no
   properties section. *)
C21_PropertiesSectionOutsideTheTree ==
    documentation.includeSchema =>
        \A r \in formatted : \A dataSource \in DataSourcesWithProperties(documentation) :
            IF r = "tree" THEN HasPropertiesAsChildren(trees[r], dataSource)
            ELSE HasReversedPropertiesSection(trees[r], dataSource)

C21_Witness ==
    /\ documentation.includeSchema
    /\ formatted = Renderers
    /\ \E dataSource \in DataSourcesOf(documentation) :
          /\ Len(dataSource.properties) >= 3
          /\ dataSource.properties[1].id # dataSource.properties[3].id

(***************************************************************************)
(* The items section of a legacy database.                                 *)
(***************************************************************************)
(* the pages of the aggregate whose parent is the database, by id *)
RowsOf(data, database) ==
    {page \in Range(data.pages) :
        page.parent.type = "database_id" /\ page.parent.id = database.id}

(* how many children of the node carry the id *)
ChildrenWithId(heap, h, id) ==
    Cardinality({i \in 1..Len(heap[h].children) : heap[heap[h].children[i]].id = id})

(* the node of the database has an items section that holds every row of the
   database once, and no row is a root or a child of the database node *)
RowsUnderItemsSection(data, tree, database) ==
    /\ NodesWithId(tree, database.id, "database") # {}
    /\ \A h \in NodesWithId(tree, database.id, "database") :
          /\ \E i \in 1..Len(tree.heap[h].children) :
                LET section == tree.heap[h].children[i] IN
                /\ tree.heap[section].type = "items-section"
                /\ \A page \in RowsOf(data, database) :
                      ChildrenWithId(tree.heap, section, page.id) = 1
          /\ \A page \in RowsOf(data, database) :
                /\ ChildrenWithId(tree.heap, h, page.id) = 0
                /\ ~IsRoot(tree, page.id)

(* C22: in the legacy shape with includeItems set, the node of each database
   has an items section, and every page whose parent is that database, by id,
   is a child of that section exactly once and is neither a root nor a child
   of the database node; in the forest of every renderer. *)
C22_RowsUnderItemsSection ==
    (documentation.includeItems /\ config.apiVersion = "2022-06-28") =>
        \A r \in formatted : \A database \in Range(documentation.databases) :
            Len(database.dataSources) = 0 =>
                RowsUnderItemsSection(documentation, trees[r], database)

(***************************************************************************)
(* The properties in the Markdown output.                                  *)
(***************************************************************************)
(* the properties of the schemas of the aggregate *)
PropertiesOf(data) ==
    UNION {Range(database.properties)
              \cup UNION {Range(dataSource.properties) :
                             dataSource \in Range(database.dataSources)} :
           database \in Range(data.databases)}

(* the bullet that shows the whole name and the whole details of the property *)
WholeBullet(data, property) ==
    "- **" \o property.name \o ":** "
        \o Join(MarkdownPropertyDetails(property, data.databases), "")

(* C23: the Markdown body shows every property of the schema as a bullet
   with its complete name and its complete details (id, type, options or
   expression, description), whatever the name, the options, the expression
   and the description hold, the '|' character included. *)
C23_PropertyBulletIsWhole ==
    "markdown" \in formatted =>
        \A property \in PropertiesOf(documentation) :
            \E n \in 1..Len(lastOutput["markdown"]) :
                lastOutput["markdown"][n] = WholeBullet(documentation, property)

(***************************************************************************)
(* The PDF and the DOCX document of the numbered outline                   *)
(* (NumberedFormatter.generatePDF, NumberedFormatter.generateDOC).         *)
(***************************************************************************)
(* What line.match yields on the lines of the
   outline: line k of format(data) is the label and the title of place k of
   the forest, so the number is the path of the place and the text is the
   title of its node.  The node is kept beside them for the properties. *)
MatchedLines(tree) ==
    MapSeq(PreOrder(tree.heap, tree.rootNodes, <<>>), LAMBDA place :
        [number |-> place.path, text |-> tree.heap[place.h].title, h |-> place.h,
         type |-> tree.heap[place.h].type])

IsPagesSectionTitle(text) == text = "Database pages" \/ text = "Data source pages"

(* the tracking of the pages section at the head of the loop body *)
TrackPagesSection(track, line) ==
    LET level == Len(line.number) IN
    IF IsPagesSectionTitle(line.text)
    THEN [insidePagesSection |-> TRUE, pagesSectionLevel |-> level]
    ELSE IF track.insidePagesSection /\ level <= track.pagesSectionLevel
    THEN [track EXCEPT !.insidePagesSection = FALSE]
    ELSE track

(* the small style of a page inside a pages section *)
NestedPageFont(format) ==
    IF format = "pdf" THEN [size |-> 8, bold |-> FALSE] ELSE [size |-> 16, bold |-> FALSE]

(* the heading style of a page line by its level; the DOCX sizes are in half-points *)
PageHeadingFont(format, level) ==
    IF format = "pdf"
    THEN [size |-> CASE level = 1 -> 20 [] level = 2 -> 14 [] level = 3 -> 12 [] OTHER -> 10,
          bold |-> TRUE]
    ELSE [size |-> CASE level = 1 -> 40 [] level = 2 -> 28 [] level = 3 -> 24 [] OTHER -> 20,
          bold |-> TRUE]

(* The if-chain that picks the font of a matched line.  text.endsWith of
   ' page', ' database' and ' data source' is told by the type of the node:
   buildTree ends the titles of the page, database and data source nodes so,
   and the titles of the section and property nodes end otherwise. *)
LineFont(format, insidePagesSection, line) ==
    LET level == Len(line.number)
        pt(n) == IF format = "pdf" THEN n ELSE 2 * n
        EndsWithPage(l) == l.type = "page"
        EndsWithDatabase(l) == l.type = "database"
        EndsWithDataSource(l) == l.type = "data-source"
    IN CASE EndsWithPage(line) ->
              IF insidePagesSection THEN NestedPageFont(format)
              ELSE PageHeadingFont(format, level)
         [] EndsWithDatabase(line) -> [size |-> pt(12), bold |-> TRUE]
         [] EndsWithDataSource(line) -> [size |-> pt(10), bold |-> TRUE]
         [] line.text \in {"Properties", "Data source pages", "Database pages"} ->
              [size |-> pt(8), bold |-> TRUE]
         [] line.text = "Pages" -> [size |-> pt(10), bold |-> TRUE]
         [] line.text = "properties:" ->
              [size |-> IF format = "pdf" THEN 8 ELSE 20, bold |-> TRUE]
         [] line.text = "items:" -> [size |-> pt(10), bold |-> TRUE]
         [] OTHER -> [size |-> pt(8), bold |-> FALSE]

(* the loop over the lines: the font each matched line is set in *)
RECURSIVE LayOutLines(_, _, _, _)
LayOutLines(format, lines, k, track) ==
    IF k > Len(lines) THEN <<>>
    ELSE LET line == lines[k]
             tracked == TrackPagesSection(track, line)
         IN <<[h |-> line.h, level |-> Len(line.number),
               font |-> LineFont(format, tracked.insidePagesSection, line)]>>
            \o LayOutLines(format, lines, k + 1, tracked)

(* generatePDF and generateDOC: format(data), then the loop over its lines *)
GenerateDocument(format) ==
    /\ pc = "assembled"
    /\ \E tree \in {BuildTree("numbered", documentation)} :
          /\ trees' = [trees EXCEPT !["numbered"] = tree]
          /\ lastOutput' = [lastOutput EXCEPT !["numbered"] =
                                Render("numbered", documentation, tree)]
          /\ layout' = [layout EXCEPT ![format] =
                           LayOutLines(format, MatchedLines(tree), 1,
                               [insidePagesSection |-> FALSE, pagesSectionLevel |-> 0])]
    /\ documentation' = AggregateAfter("numbered", documentation)
    /\ formatted' = formatted \cup {"numbered"}
    /\ again' = (again \/ formatted = Renderers)
    /\ UNCHANGED <<handlers, contents, now, ui, serverVars, envVars, pc, connection, pages,
                   allDatabases, genVars, response>>

(* The workspaces with a database inside a row of another: two rows in the
   first database, the second database at the top, under the first row or
   under the second, and a third page at the top, under the first row or a
   row of the second database. *)
NestedWorlds(apiVersion) ==
    {[pages |-> <<RemotePage(1, ItemParent(apiVersion, DatabaseId(1))),
                  RemotePage(2, ItemParent(apiVersion, DatabaseId(1))),
                  RemotePage(3, third)>>,
      databases |-> <<RemoteDatabase(1, WorkspaceParent, k),
                      RemoteDatabase(2, second, k)>>] :
        third \in {WorkspaceParent, PageParent(PageId(1)),
                   ItemParent(apiVersion, DatabaseId(2))},
        second \in {WorkspaceParent, PageParent(PageId(1)), PageParent(PageId(2))},
        k \in {0, MaxProps}}

LayoutInit ==
    /\ config \in {c \in Configs : c.includeItems}
    /\ world \in NestedWorlds(config.apiVersion)
    /\ api = [credential |-> "valid", down |-> {}]
    /\ request = [entry |-> "cli", formats |-> <<>>, workspaceName |-> Acme,
                  options |-> Interactive, fileId |-> 0]
    /\ unwritable = {}
    /\ Idle
    /\ ServerStarted
    /\ AsideIdle

NextLayout ==
    \/ Connect
    \/ FetchPages
    \/ FetchDatabases
    \/ Assemble
    \/ \E format \in {"pdf", "docx"} : GenerateDocument(format)

SpecLayout == LayoutInit /\ [][NextLayout]_vars

(***************************************************************************)
(* C24                                                                     *)
(***************************************************************************)
RECURSIVE UnderPagesSection(_, _, _)
UnderPagesSection(heap, roots, h) ==
    \E j \in 1..Len(roots) :
        \/ /\ IsPagesSectionTitle(heap[roots[j]].title)
           /\ \E place \in Range(PreOrder(heap, heap[roots[j]].children, <<>>)) : place.h = h
        \/ UnderPagesSection(heap, heap[roots[j]].children, h)

PageLinesStyledByNesting(format) ==
    LET tree == trees["numbered"] IN
    \A k \in 1..Len(layout[format]) :
        LET set == layout[format][k] IN
        tree.heap[set.h].type = "page" =>
            set.font = IF UnderPagesSection(tree.heap, tree.rootNodes, set.h)
                       THEN NestedPageFont(format)
                       ELSE PageHeadingFont(format, set.level)

(* C24: in the PDF and in the DOCX document a line of a page is set in the
   small style of nested pages exactly when its node is a descendant of a
   'Database pages' or 'Data source pages' section, and in the heading style
   of its depth otherwise. *)
C24_PageStyleFollowsNesting ==
    \A format \in {"pdf", "docx"} : PageLinesStyledByNesting(format)

(***************************************************************************)
(* The entry points that write every format in one run: the format loop   *)
(* of the CLI action, generateAllFormats and                               *)
(* FormatterFactory.writeAllFormats.                                       *)
(***************************************************************************)
(* the formatters array of generateAllFormats and of writeAllFormats *)
AllFormatters == <<"json", "markdown", "csv", "tree", "numbered-txt", "pdf", "docx">>

(* defaultFilename of writeToFile: the numbered formatter has its own *)
DefaultFilename(format) ==
    IF format \in {"numbered-txt", "pdf", "docx"}
    THEN "notion-numbered-documentation-" \o dateStr
    ELSE "notion-documentation-" \o dateStr

(* writeToFile(data, outputDir, name) as generateAllFormats calls it, with the
   filename of the run for every formatter, and writeToFile(data, outputDir)
   as writeAllFormats calls it *)
AllFormatsPath(entry, name, format) ==
    IF entry = "generateAllFormats"
    THEN "output/" \o Join(cleanWorkspaceName(name)
                              \o <<"_NWS_", dateStr, "-", timeStr, ".", FileExtension(format)>>,
                           "")
    ELSE "output/" \o DefaultFilename(format) \o "." \o FileExtension(format)

AllFormatsEntries == {"generateAllFormats", "writeAllFormats"}

(* one turn of for (const formatter of formatters): a writeToFile that
   throws rejects the whole call *)
WriteNextFormatter ==
    /\ pc = "assembled"
    /\ request.entry \in AllFormatsEntries
    /\ formatIndex <= Len(AllFormatters)
    /\ LET format == AllFormatters[formatIndex]
           filePath == AllFormatsPath(request.entry, request.workspaceName, format)
       IN IF format \in unwritable
          THEN /\ pc' = "done"
               /\ response' = CliCatch(NewError(
                      "EACCES: permission denied, open '" \o filePath \o "'"))
               /\ UNCHANGED genVars
          ELSE /\ disk' = disk \cup {filePath}
               /\ generatedFiles' =
                     Append(generatedFiles,
                            [path |-> filePath, format |-> Undefined, id |-> 0])
               /\ formatIndex' = formatIndex + 1
               /\ UNCHANGED <<pc, response>>
    /\ UNCHANGED <<asideVars, serverVars, envVars, connection, fetchVars, renderVars>>

(* return files *)
ReturnFiles ==
    /\ pc = "assembled"
    /\ request.entry \in AllFormatsEntries
    /\ formatIndex > Len(AllFormatters)
    /\ pc' = "done"
    /\ response' = Exit("0", "", generatedFiles)
    /\ UNCHANGED <<asideVars, serverVars, envVars, connection, fetchVars, renderVars, genVars>>

(* The generation step of a run over all the formats, for a workspace
   without pages: the documentation is assembled, and the files are written
   by the loop of the CLI action or by one of the two functions. *)
AllFormatsInit ==
    /\ request \in [entry : {"cli"} \cup AllFormatsEntries,
                    formats : {<<"json", "markdown", "csv", "tree", "numbered-txt",
                                 "docx", "pdf">>},
                    workspaceName : Names, options : {Interactive}, fileId : {0}]
    /\ config \in {c \in Configs : c.includeSchema /\ c.includeItems}
    /\ world = [pages |-> <<>>, databases |-> <<>>]
    /\ api = [credential |-> "valid", down |-> {}]
    /\ unwritable \in {{}, {"csv"}}
    /\ pc = "assembled"
    /\ connection = "true"
    /\ pages = <<>>
    /\ allDatabases = <<>>
    /\ documentation = CreateDocumentation(config, <<>>, <<>>)
    /\ formatted = {}
    /\ again = FALSE
    /\ trees = [r \in Renderers |-> NoTree]
    /\ lastOutput = [r \in Renderers |-> <<>>]
    /\ formatIndex = 1
    /\ generatedFiles = <<>>
    /\ disk = {}
    /\ response = NoResponse
    /\ ServerStarted
    /\ AsideIdle

NextAllFormats ==
    \/ GenerateFormat
    \/ Finish
    \/ WriteNextFormatter
    \/ ReturnFiles

SpecAllFormats == AllFormatsInit /\ [][NextAllFormats]_vars

(***************************************************************************)
(* C25                                                                     *)
(***************************************************************************)
(* C25: within one run over several formats every format is written to a
   path of its own, so that no output overwrites another, whichever entry
   point writes the formats: the format loop, generateAllFormats or
   FormatterFactory.writeAllFormats. *)
C25_EveryFormatHasItsOwnPath ==
    \A i, j \in 1..Len(generatedFiles) :
        i # j => generatedFiles[i].path # generatedFiles[j].path

(***************************************************************************)
(* Two POST /api/generate requests handled side by side: a handler gives  *)
(* way to the other at each await.  The awaits that touch nothing the      *)
(* handlers share are folded into the step before them.                    *)
(***************************************************************************)
MaxSeconds == 1

(* timestamp.toTimeString().split(' ')[0].replace(/:/g, '-') in the seconds
   after the first *)
TimeStrAt(second) == IF second = 0 THEN timeStr ELSE "12-00-0" \o ToString(second)

(* const baseFilename = `${cleanWorkspaceName}_NWS_${dateStr}-${timeStr}` *)
BaseFilenameAt(name, second) ==
    cleanWorkspaceName(name) \o <<"_NWS_", dateStr, "-", TimeStrAt(second)>>

(* path.join(outputDir, `${baseFilename + filenameSuffix}.${ext}`) *)
FilePathOf(baseFilename, format) ==
    "output/" \o Join(baseFilename \o <<FilenameSuffix(format), ".", FileExtension(format)>>,
                      "")

(* the bodies the two clients post: two of the names differ by a character
   the file name drops *)
ConcurrentNames == {<<"a">>, <<"a", "!">>, <<"7">>}

ConcurrentFormats == {<<"json">>, <<"tree", "numbered">>}

(* app.post('/api/generate'): the body passes the checks *)
Receive(h) ==
    /\ handlers[h].pc = "idle"
    /\ \E name \in ConcurrentNames, formats \in ConcurrentFormats :
          handlers' = [handlers EXCEPT ![h].pc = "received",
                                       ![h].workspaceName = name,
                                       ![h].formats = formats]
    /\ UNCHANGED <<layout, ui, contents, now, serverVars, envVars, pc, connection, fetchVars,
                   renderVars, genVars, response>>

(* await testConnection, getAllPages, getAllDatabases with the key of the client *)
FetchWorkspace(h) ==
    /\ handlers[h].pc = "received"
    /\ handlers' = [handlers EXCEPT ![h].pc = "fetched"]
    /\ UNCHANGED <<layout, ui, contents, now, serverVars, envVars, pc, connection, fetchVars,
                   renderVars, genVars, response>>

(* const timestamp = new Date() ... baseFilename, up to await fs.mkdir *)
NameFiles(h) ==
    /\ handlers[h].pc = "fetched"
    /\ handlers' = [handlers EXCEPT
                       ![h].pc = "looping",
                       ![h].baseFilename = BaseFilenameAt(handlers[h].workspaceName, now)]
    /\ UNCHANGED <<layout, ui, contents, now, serverVars, envVars, pc, connection, fetchVars,
                   renderVars, genVars, response>>

(* filePath = await formatter.writeToFile(workspaceDoc, outputDir, ...): the
   file holds the documentation of this request *)
WriteFile(h) ==
    /\ handlers[h].pc = "looping"
    /\ handlers[h].index <= Len(handlers[h].formats)
    /\ LET filePath == FilePathOf(handlers[h].baseFilename,
                                  handlers[h].formats[handlers[h].index])
       IN /\ contents' = MapSet(contents, filePath, h)
          /\ disk' = disk \cup {filePath}
          /\ handlers' = [handlers EXCEPT ![h].pc = "written", ![h].filePath = filePath]
    /\ UNCHANGED <<layout, ui, now, serverVars, envVars, pc, connection, fetchVars, renderVars,
                   formatIndex, generatedFiles, response>>

(* tempFiles.set(fileId, ...), and generatedFiles.push after await fs.stat *)
RegisterFile(h) ==
    /\ handlers[h].pc = "written"
    /\ fileIds' = fileIds + 1
    /\ tempFiles' = tempFiles \cup {[id |-> fileIds', path |-> handlers[h].filePath,
                                     age |-> 0]}
    /\ handlers' = [handlers EXCEPT
                       ![h].pc = "looping",
                       ![h].index = @ + 1,
                       ![h].generatedFiles =
                           Append(@, [id |-> fileIds', path |-> handlers[h].filePath,
                                      format |-> handlers[h].formats[handlers[h].index]])]
    /\ UNCHANGED <<layout, ui, contents, now, tick, envVars, pc, connection, fetchVars,
                   renderVars, genVars, response>>

(* cleanupOldFiles(); res.json({success: true, files: generatedFiles, ...}) *)
Respond(h) ==
    /\ handlers[h].pc = "looping"
    /\ handlers[h].index > Len(handlers[h].formats)
    /\ tempFiles' = cleanupOldFiles(tempFiles)
    /\ disk' = Unlinked(tempFiles, disk)
    /\ handlers' = [handlers EXCEPT ![h].pc = "answered"]
    /\ UNCHANGED <<layout, ui, contents, now, fileIds, tick, envVars, pc, connection, fetchVars,
                   renderVars, formatIndex, generatedFiles, response>>

(* GET /api/download/:fileId by the client of the request, for an id of its
   answer: res.download sends what the file of the id holds *)
Download(h) ==
    /\ handlers[h].pc = "answered"
    /\ \E file \in Range(handlers[h].generatedFiles) :
       \E fileInfo \in tempFiles :
          /\ fileInfo.id = file.id
          /\ fileInfo.path \in disk
          /\ handlers' = [handlers EXCEPT ![h].downloaded = @ \cup {contents[fileInfo.path]}]
    /\ UNCHANGED <<layout, ui, contents, now, serverVars, envVars, pc, connection, fetchVars,
                   renderVars, genVars, response>>

(* a second goes by *)
Tock ==
    /\ now < MaxSeconds
    /\ now' = now + 1
    /\ UNCHANGED <<layout, ui, handlers, contents, serverVars, envVars, pc, connection,
                   fetchVars, renderVars, genVars, response>>

ConcurrentInit ==
    /\ config \in {c \in Configs : c.includeSchema /\ c.includeItems}
    /\ world = [pages |-> <<>>, databases |-> <<>>]
    /\ api = [credential |-> "valid", down |-> {}]
    /\ request = [entry |-> "/api/generate", formats |-> <<>>, workspaceName |-> <<>>,
                  options |-> Interactive, fileId |-> 0]
    /\ unwritable = {}
    /\ Idle
    /\ ServerStarted
    /\ AsideIdle

NextConcurrent ==
    \/ \E h \in Handlers :
          \/ Receive(h)
          \/ FetchWorkspace(h)
          \/ NameFiles(h)
          \/ WriteFile(h)
          \/ RegisterFile(h)
          \/ Respond(h)
          \/ Download(h)
    \/ Tock

SpecConcurrent == ConcurrentInit /\ [][NextConcurrent]_vars

(***************************************************************************)
(* C26                                                                     *)
(***************************************************************************)
RegisteredPaths(h) == {file.path : file \in Range(handlers[h].generatedFiles)}

(* C26: when two /api/generate requests are handled side by side, every file
   id answered to a client names a file that holds the documentation of the
   request of that client: no two requests register the same path, and no
   file of a request is overwritten by the other request. *)
C26_EachClientGetsItsOwnFiles ==
    \A h \in Handlers :
        /\ handlers[h].downloaded \subseteq {h}
        /\ \A path \in RegisteredPaths(h) : contents[path] = h
        /\ \A other \in Handlers \ {h} : RegisteredPaths(h) \cap RegisteredPaths(other) = {}

(***************************************************************************)
(* The builders and the renderers on workspaces whose parent references   *)
(* need not form a forest.                                                 *)
(***************************************************************************)
(* Two pages and a database, each under the workspace, under either page or
   in the database: a page may be its own parent, and so may the database. *)
LoopingWorlds(apiVersion) ==
    LET anywhere == {WorkspaceParent, PageParent(PageId(1)), PageParent(PageId(2))}
        inDatabase == [NoParent EXCEPT !.type = "database_id",
                                       !.database_id = DatabaseId(1)]
    IN {[pages |-> <<RemotePage(1, first), RemotePage(2, second)>>,
         databases |-> <<RemoteDatabase(1, third, k)>>] :
           first \in anywhere \cup {ItemParent(apiVersion, DatabaseId(1))},
           second \in anywhere \cup {ItemParent(apiVersion, DatabaseId(1))},
           third \in anywhere \cup {inDatabase},
           k \in {0, MaxProps}}

LoopingInit ==
    /\ config \in Configs
    /\ world \in LoopingWorlds(config.apiVersion)
    /\ api = [credential |-> "valid", down |-> {}]
    /\ request = [entry |-> "cli", formats |-> <<>>, workspaceName |-> Acme,
                  options |-> Interactive, fileId |-> 0]
    /\ unwritable = {}
    /\ Idle
    /\ ServerStarted
    /\ AsideIdle

SpecLooping == LoopingInit /\ [][Next]_vars

(***************************************************************************)
(* C27                                                                     *)
(***************************************************************************)
(* C27: for every aggregate, also when the parent references of its pages
   and databases form a cycle or name the entity itself, building the forest
   and walking it to render terminates and does not throw: the walk from the
   roots never comes back to a node it is inside of. *)
C27_BuildAndWalkTerminate ==
    \A r \in Renderers : ~WalkLoops(trees[r]) /\ lastOutput[r] # RangeError

C27_Witness ==
    /\ ~Acyclic(world)
    /\ formatted = Renderers
    /\ \E r \in Renderers : \E h \in DOMAIN trees[r].heap :
          h \in Visited(trees[r].heap, Range(trees[r].heap[h].children), {})

(***************************************************************************)
(* C28                                                                     *)
(***************************************************************************)
(* the nodes of a forest by kind and id, each with the id of the node it is
   a child of, in the forest below the given nodes *)
RECURSIVE Placed(_, _, _)
Placed(heap, nodes, parent) ==
    UNION {{[type |-> heap[nodes[j]].type, id |-> heap[nodes[j]].id, under |-> parent]}
              \cup Placed(heap, heap[nodes[j]].children, heap[nodes[j]].id)
           : j \in 1..Len(nodes)}

Shape(tree) == Placed(tree.heap, tree.rootNodes, "")

(* C28: the three builders produce the same forest up to the titles of the
   nodes and the order of the siblings: the same nodes by kind and id, each
   under the same parent. *)
C28_SameForestInEveryBuilder ==
    \A r, q \in formatted : Shape(trees[r]) = Shape(trees[q])

(* C28, amended: the Markdown and the numbered builder produce the same
   forest up to titles and sibling order, and the tree builder produces it
   too when the items are not included and no data source has a property. *)
C28_SameForestOutsideTheTree ==
    \A r, q \in formatted :
        (\/ {r, q} \subseteq {"markdown", "numbered"}
         \/ (~documentation.includeItems /\ DataSourcesWithProperties(documentation) = {}))
        => Shape(trees[r]) = Shape(trees[q])

C28_Witness ==
    /\ formatted = Renderers
    /\ documentation.includeItems
    /\ DataSourcesWithProperties(documentation) # {}
    /\ \E node \in Shape(trees["markdown"]) : node.type = "pages-section"
    /\ Shape(trees["markdown"]) = Shape(trees["numbered"])
    /\ Shape(trees["tree"]) # Shape(trees["numbered"])

(***************************************************************************)
(* The page of the web UI (handleFormSubmit and the functions it calls).   *)
(* The submit button is disabled while a submission runs, so a submission  *)
(* begins only when the one before has ended.                              *)
(***************************************************************************)
MaxSubmissions == 3

(* a next step made active while the step before stays as it is *)
NextStepOnly(currentProgress, i) ==
    [j \in 1..Len(Steps) |-> IF j = i + 1 THEN "active" ELSE currentProgress[j]]

(* updateProgress(step, 'success') and updateProgress(next step, 'active') *)
AdvanceProgress(currentProgress, i) ==
    [j \in 1..Len(Steps) |->
        IF j = i THEN "success"
        ELSE IF j = i + 1 THEN "active"
        ELSE currentProgress[j]]

(* The loop of handleError over the steps: the active step becomes 'error';
   a step after it, and a pending step, is set to 'pending'. *)
RECURSIVE MarkErrorStep(_, _, _)
MarkErrorStep(currentProgress, i, errorStepFound) ==
    IF i > Len(Steps) THEN currentProgress
    ELSE IF currentProgress[i] = "active"
    THEN MarkErrorStep([currentProgress EXCEPT ![i] = "error"], i + 1, TRUE)
    ELSE IF errorStepFound \/ currentProgress[i] = "pending"
    THEN MarkErrorStep([currentProgress EXCEPT ![i] = "pending"], i + 1, errorStepFound)
    ELSE MarkErrorStep(currentProgress, i + 1, errorStepFound)

(* handleError(error) *)
handleError(page) ==
    [page EXCEPT !.currentProgress = MarkErrorStep(page.currentProgress, 1, FALSE),
                 !.resultsSection = FALSE,
                 !.errorSection = TRUE]

(* a submission that validateFormData turns down: showError(message) *)
SubmitInvalid ==
    /\ ~ui.disabled
    /\ ui.submissions < MaxSubmissions
    /\ ui' = [handleError(ui) EXCEPT !.outcome = "invalid", !.rejected = 0,
                                     !.submissions = @ + 1]
    /\ UNCHANGED <<layout, handlers, contents, now, serverVars, envVars, pc, connection,
                   fetchVars, renderVars, genVars, response>>

(* a valid submission: resetProgress, showProgress, hideResults,
   setButtonLoading(true), updateProgress('connecting', 'active') *)
SubmitValid ==
    /\ ~ui.disabled
    /\ ui.submissions < MaxSubmissions
    /\ ui' = [ui EXCEPT !.currentProgress =
                            [j \in 1..Len(Steps) |-> IF j = 1 THEN "active" ELSE "pending"],
                        !.progressSection = TRUE,
                        !.resultsSection = FALSE,
                        !.disabled = TRUE,
                        !.step = 1, !.rejected = 0, !.outcome = "none",
                        !.submissions = @ + 1]
    /\ UNCHANGED <<layout, handlers, contents, now, serverVars, envVars, pc, connection,
                   fetchVars, renderVars, genVars, response>>

(* the request of the step is answered: the step succeeds and the next one
   begins, or, after the last step, displayResults and the finally *)
StepSucceeds ==
    /\ ui.step \in 1..Len(Steps)
    /\ ui' = IF ui.step < Len(Steps)
             THEN [ui EXCEPT !.currentProgress = AdvanceProgress(@, ui.step),
                             !.step = @ + 1]
             ELSE [ui EXCEPT !.currentProgress = AdvanceProgress(@, ui.step),
                             !.resultsSection = TRUE,
                             !.disabled = FALSE,
                             !.step = 0, !.outcome = "succeeded"]
    /\ UNCHANGED <<layout, handlers, contents, now, serverVars, envVars, pc, connection,
                   fetchVars, renderVars, genVars, response>>

(* the request of the step fails: catch (error) { handleError(error) } and
   the finally *)
StepFails ==
    /\ ui.step \in 1..Len(Steps)
    /\ ui' = [handleError(ui) EXCEPT !.disabled = FALSE, !.step = 0,
                                     !.rejected = ui.step, !.outcome = "failed"]
    /\ UNCHANGED <<layout, handlers, contents, now, serverVars, envVars, pc, connection,
                   fetchVars, renderVars, genVars, response>>

(* window.handleRetry, from the error shown *)
handleRetry ==
    /\ ui.errorSection
    /\ ui' = [ui EXCEPT !.resultsSection = FALSE, !.outcome = "dismissed"]
    /\ UNCHANGED <<layout, handlers, contents, now, serverVars, envVars, pc, connection,
                   fetchVars, renderVars, genVars, response>>

(* window.resetForm, from the results or the error shown *)
resetForm ==
    /\ ui.resultsSection \/ ui.errorSection
    /\ ui' = [ui EXCEPT !.resultsSection = FALSE, !.progressSection = FALSE,
                        !.errorSection = FALSE, !.outcome = "dismissed"]
    /\ UNCHANGED <<layout, handlers, contents, now, serverVars, envVars, pc, connection,
                   fetchVars, renderVars, genVars, response>>

NextUi ==
    \/ SubmitInvalid
    \/ SubmitValid
    \/ StepSucceeds
    \/ StepFails
    \/ handleRetry
    \/ resetForm

SpecUi == ConcurrentInit /\ [][NextUi]_vars

(***************************************************************************)
(* C29                                                                     *)
(***************************************************************************)
(* C29: across any sequence of submissions the four progress steps advance
   in their order: at most one step is active, a step is active or done only
   if every step before it is done, and when a step fails it is marked as
   the error and every step after it stays pending. *)
C29_StepsAdvanceInOrder ==
    LET progress == ui.currentProgress IN
    /\ Cardinality({i \in 1..Len(Steps) : progress[i] = "active"}) <= 1
    /\ \A i \in 1..Len(Steps) :
          /\ progress[i] \in {"active", "success"} =>
                \A j \in 1..(i - 1) : progress[j] = "success"
          /\ progress[i] = "error" => \A j \in (i + 1)..Len(Steps) : progress[j] = "pending"
    /\ ui.step # 0 => progress[ui.step] = "active"
    /\ ui.rejected # 0 => progress[ui.rejected] = "error"

C29_Witness ==
    /\ ui.submissions = MaxSubmissions
    /\ ui.outcome = "invalid"
    /\ ui.currentProgress = <<"success", "success", "error", "pending">>

(***************************************************************************)
(* C30                                                                     *)
(***************************************************************************)
(* C30: whenever the latest submission has succeeded, the results section
   is displayed and the error section is not: the error of an earlier
   submission does not stay on the page. *)
C30_NoErrorBesideResults ==
    ui.outcome = "succeeded" => (ui.resultsSection /\ ~ui.errorSection)

====
